---- MODULE Spec2Model ----
(***************************************************************************)
(* A model of the options backtesting engine: the PositionManager (open    *)
(* positions, mark-to-market, exit rules, bulk closures, gamma-scalping    *)
(* rebalancing), the RiskManager and the BacktestEngine's single-symbol    *)
(* and multi-symbol trading-day loops.                                      *)
(*                                                                         *)
(* Numbers.  Option prices are integers in units of 0.005 (the default     *)
(* slippage per leg, so that slippage is 1 unit); P&L values are in the    *)
(* same unit times quantity times lot size.  Position deltas are integers  *)
(* in units of 0.01 and position ratios in units of 0.1.                   *)
(*                                                                         *)
(* Leg keys.  A leg key such as "CE_580.0_SELL" is the sequence of its     *)
(* '_'-separated parts; a part is either a text or a numeral, which is     *)
(* what float() and int() tell apart.                                      *)
(***************************************************************************)
EXTENDS Integers, Sequences, FiniteSets, TLC

VARIABLES
    pm,            \* the single PositionManager: [positions, position_counter]
    setups,        \* the strategies (base_setups), with the gamma-scalping state
    call,          \* the last PositionManager call: [op, timeindex, setup_id, reason, listed]
    md,            \* the MarketData of the last call or step
    pre,           \* the PositionManager as it was before the last call
    ret,           \* the Trades the last call returned
    raised,        \* TRUE when the last call raised an exception
    added,         \* positions added since the last reset_positions
    closed,        \* Trades returned since the last reset_positions
    pc,            \* the trading day: "RUNNING", or how its loop ended
    now,           \* the last timestamp the day's loop has reached
    processed,     \* one record per timestamp for which a step ran, in order
    job_end_idx,   \* TradingDayData.job_end_idx
    risk,          \* the RiskManager and the cross-symbol limit
    daily_trades,  \* the day's Trades, in insertion order
    atCheck,       \* the PositionManager(s) when the last after-step checks ran
    spm,           \* multi-symbol: symbol_position_managers
    srm,           \* multi-symbol: symbol_risk_managers
    symbol_data,   \* multi-symbol: the loaded symbols in dict order, their job_end_idx
    loader,        \* DataLoader: the files, the requested symbols, the worker pool
    detector,      \* MarketRegimeDetector: its histories and current regime
    dsm,           \* DynamicSetupManager: base and adjusted setups, logs, histories
    calc           \* the arguments and the result of the last pure computation

vars == <<pm, setups, call, md, pre, ret, raised, added, closed, pc, now, processed,
          job_end_idx, risk, daily_trades, atCheck, spm, srm, symbol_data, loader,
          detector, dsm, calc>>

pmVars == <<pm, setups, call, md, pre, ret, raised, added, closed>>
dayVars == <<pc, now, processed, job_end_idx, risk, daily_trades, atCheck>>
multiVars == <<spm, srm, symbol_data>>
engineVars == <<pmVars, dayVars, multiVars>>
unitVars == <<loader, detector, dsm, calc>>

(***************************************************************************)
(* Bounds of the model.                                                    *)
(***************************************************************************)
MaxAdds == 2        \* position_counter never exceeds this between resets
MaxTime == 2        \* timestamps are 1..MaxTime
MaxTicks == 3       \* a trading day has the timestamps 1..MaxTicks

(***************************************************************************)
(* Generic helpers.                                                        *)
(***************************************************************************)
RECURSIVE SumSeq(_)
SumSeq(s) == IF s = <<>> THEN 0 ELSE Head(s) + SumSeq(Tail(s))

RECURSIVE SelectIdx(_, _, _)
\* the subsequence of s at the indices in keep, in order
SelectIdx(s, keep, i) ==
    IF i > Len(s) THEN <<>>
    ELSE (IF i \in keep THEN <<s[i]>> ELSE <<>>) \o SelectIdx(s, keep, i + 1)

\* F applied to the value of v, with v evaluated once
Then(v, F(_)) == CHOOSE out \in {F(x) : x \in {v}} : TRUE

Range(s) == {s[i] : i \in 1..Len(s)}

Txt(str) == [num |-> FALSE, v |-> 0, s |-> str]
Num(n) == [num |-> TRUE, v |-> n, s |-> ""]

(***************************************************************************)
(* Leg keys and leg P&L (position_manager.py).                             *)
(***************************************************************************)
NoLeg == [ok |-> FALSE, option_type |-> "", strike |-> 0, action |-> "", quantity |-> 0]

Leg(ot, k, a, q) ==
    [ok |-> TRUE, option_type |-> ot, strike |-> k, action |-> a, quantity |-> q]

\* word in option_key, for the role words of a butterfly key
HasPart(key, word) == \E i \in 1..Len(key) : key[i].s = word

\* position.strikes.get(k, 0.0)
StrikeOf(position, k) ==
    IF k \in DOMAIN position.strikes THEN position.strikes[k] ELSE 0

\* _parse_option_key: NoLeg is the None returned when float() or int() raises
\* or a part is missing.
ParseOptionKey(key, position) ==
    LET n == Len(key)
        ot == key[1].s
        ptype == position.position_type
        dflt == Leg(ot, 0, ptype, position.quantity)
        strikeAction ==
            IF key[2].num THEN Leg(ot, key[2].v, key[3].s, position.quantity)
            ELSE NoLeg
        simple ==
            IF key[2].num THEN Leg(ot, key[2].v, ptype, position.quantity)
            ELSE NoLeg
    IN  IF ptype \in {"IRON_CONDOR", "VERTICAL_SPREAD", "VOLATILITY_SKEW"}
        THEN (IF n >= 3 THEN strikeAction ELSE dflt)
        ELSE IF ptype = "BUTTERFLY"
        THEN (IF HasPart(key, "LOWER")
              THEN Leg(ot, StrikeOf(position, <<ot, "BUY", "LOWER">>), "BUY", 1)
              ELSE IF HasPart(key, "BODY")
              THEN Leg(ot, StrikeOf(position, <<ot, "SELL", "BODY">>), "SELL", 2)
              ELSE IF HasPart(key, "UPPER")
              THEN Leg(ot, StrikeOf(position, <<ot, "BUY", "UPPER">>), "BUY", 1)
              ELSE dflt)
        ELSE IF ptype = "RATIO_SPREAD"
        THEN (IF n >= 3
              THEN (IF ~key[2].num THEN NoLeg
                    ELSE IF n > 3
                    THEN (IF key[4].num THEN Leg(ot, key[2].v, key[3].s, key[4].v)
                          ELSE NoLeg)
                    ELSE strikeAction)
              ELSE dflt)
        ELSE IF ptype \in {"HEDGED", "GAMMA_SCALP", "GAMMA_SCALP_REBALANCED"}
        THEN (IF n >= 3 THEN strikeAction
              ELSE IF n >= 2 THEN simple
              ELSE NoLeg)
        ELSE (IF n >= 2 THEN simple ELSE dflt)

\* a variant in which a bought leg is credited the slippage
CalculateLegPnlCredited(entry_price, current_price, action, quantity, lot_size, slippage) ==
    IF action \in {"SELL", "SHORT"}
    THEN ((entry_price - slippage) - (current_price + slippage)) * quantity * lot_size
    ELSE ((current_price + slippage) - (entry_price - slippage)) * quantity * lot_size

\* _calculate_leg_pnl
CalculateLegPnl(entry_price, current_price, action, quantity, lot_size, slippage) ==
    IF action \in {"SELL", "SHORT"}
    THEN ((entry_price - slippage) - (current_price + slippage)) * quantity * lot_size
    ELSE ((current_price - slippage) - (entry_price + slippage)) * quantity * lot_size

\* option_type in option_prices and strike in option_prices[option_type]
HasPrice(market_data, ot, strike) == <<ot, strike>> \in DOMAIN market_data.option_prices

PriceOf(market_data, ot, strike) == market_data.option_prices[<<ot, strike>>]

\* a variant that marks an unpriced leg at the price 0 instead of skipping it
LegPnlNowAtZero(position, market_data, leg) ==
    LET d == ParseOptionKey(leg.key, position)
    IN  IF ~d.ok THEN 0
        ELSE CalculateLegPnl(leg.price,
                             IF HasPrice(market_data, d.option_type, d.strike)
                             THEN PriceOf(market_data, d.option_type, d.strike) ELSE 0,
                             d.action, d.quantity, position.lot_size, position.slippage)

\* one leg's term of _calculate_position_pnl: an unparsable or unpriced leg is skipped
LegPnlNow(position, market_data, leg) ==
    LET d == ParseOptionKey(leg.key, position)
    IN  IF ~d.ok THEN 0
        ELSE IF ~HasPrice(market_data, d.option_type, d.strike) THEN 0
        ELSE CalculateLegPnl(leg.price, PriceOf(market_data, d.option_type, d.strike),
                             d.action, d.quantity, position.lot_size, position.slippage)

\* _calculate_position_pnl
CalculatePositionPnl(position, market_data) ==
    SumSeq([i \in 1..Len(position.entry_prices) |->
                LegPnlNow(position, market_data, position.entry_prices[i])])

\* the exit conditions with the time-based close tested first
CheckExitConditionsTimeFirst(position, current_timeindex) ==
    IF current_timeindex >= position.force_close_timeindex
    THEN "TIME_BASED"
    ELSE IF position.target_pnl > 0 /\ position.current_pnl >= position.target_pnl
    THEN "TARGET"
    ELSE IF position.stop_loss_pnl < 0 /\ position.current_pnl <= position.stop_loss_pnl
    THEN "STOP_LOSS"
    ELSE ""

\* _check_exit_conditions; "" is None.  x <= y * 0.5 is written 2x <= y, and so on.
CheckExitConditions(position, current_timeindex) ==
    IF position.target_pnl > 0 /\ position.current_pnl >= position.target_pnl
    THEN "TARGET"
    ELSE IF position.stop_loss_pnl < 0 /\ position.current_pnl <= position.stop_loss_pnl
    THEN "STOP_LOSS"
    ELSE IF position.unlimited_risk /\ 2 * position.current_pnl <= position.stop_loss_pnl
    THEN "UNLIMITED_RISK_PROTECTION"
    ELSE IF /\ position.position_type = "IRON_CONDOR"
            /\ position.max_profit > 0
            /\ 2 * position.current_pnl >= position.max_profit
    THEN "EARLY_PROFIT_TARGET"
    ELSE IF /\ position.position_type = "BUTTERFLY"
            /\ position.max_profit > 0
            /\ 10 * position.current_pnl >= 6 * position.max_profit
    THEN "EARLY_PROFIT_TARGET"
    ELSE IF /\ position.position_type = "RATIO_SPREAD"
            /\ 4 * position.current_pnl <= 3 * position.stop_loss_pnl
    THEN "RATIO_SPREAD_PROTECTION"
    ELSE IF current_timeindex >= position.force_close_timeindex
    THEN "TIME_BASED"
    ELSE ""

\* the exit price _close_position records for a leg: 0.0 when unparsable or unpriced
ExitPrice(position, market_data, leg) ==
    LET d == ParseOptionKey(leg.key, position)
    IN  IF d.ok /\ HasPrice(market_data, d.option_type, d.strike)
        THEN PriceOf(market_data, d.option_type, d.strike)
        ELSE 0

\* one leg's term of the final P&L of _close_position
LegPnlFinal(position, market_data, leg) ==
    LET d == ParseOptionKey(leg.key, position)
    IN  IF ~d.ok THEN 0
        ELSE CalculateLegPnl(leg.price, ExitPrice(position, market_data, leg),
                             d.action, d.quantity, position.lot_size, position.slippage)

\* _close_position: the Trade of a position.  pid is the key the position had in
\* PositionManager.positions (not a field of Trade; kept to tell the Trades apart).
ClosePosition(position, market_data, exit_reason) ==
    [pid |-> position.id,
     setup_id |-> position.setup_id,
     entry_timeindex |-> position.entry_timeindex,
     exit_timeindex |-> market_data.timestamp,
     exit_prices |-> [i \in 1..Len(position.entry_prices) |->
                         ExitPrice(position, market_data, position.entry_prices[i])],
     quantity |-> position.quantity,
     pnl |-> SumSeq([i \in 1..Len(position.entry_prices) |->
                        LegPnlFinal(position, market_data, position.entry_prices[i])]),
     exit_reason |-> exit_reason,
     symbol |-> "",
     rebalance_count |-> position.rebalance_count]

(***************************************************************************)
(* Records: MarketData, Position (models.py).                              *)
(***************************************************************************)
LotSize == 100              \* Position.lot_size
Slippage == 1               \* Position.slippage, 0.005
DefaultForceClose == 4650   \* Position.force_close_timeindex

MarketDataFields == {"timestamp", "symbol", "spot_price", "option_prices"}

\* MarketData(**fields): the dataclass constructor raises TypeError (ok = FALSE)
\* when a field without a default is not given.
MakeMarketData(fields) ==
    IF MarketDataFields \subseteq DOMAIN fields
    THEN [ok |-> TRUE, data |-> fields]
    ELSE [ok |-> FALSE, data |-> fields]

MarketData(timestamp, symbol, spot_price, option_prices) ==
    [timestamp |-> timestamp, symbol |-> symbol, spot_price |-> spot_price,
     option_prices |-> option_prices]

\* Position(...) with the dataclass defaults; id is the key it gets in
\* PositionManager.positions.
Position(setup_id, entry_timeindex, entry_prices, strikes, quantity, target_pnl, stop_loss_pnl, position_type, force_close_timeindex) ==
    [id |-> <<>>,
     setup_id |-> setup_id,
     entry_timeindex |-> entry_timeindex,
     entry_prices |-> entry_prices,
     strikes |-> strikes,
     quantity |-> quantity,
     lot_size |-> LotSize,
     target_pnl |-> target_pnl,
     stop_loss_pnl |-> stop_loss_pnl,
     current_pnl |-> 0,
     position_type |-> position_type,
     force_close_timeindex |-> force_close_timeindex,
     slippage |-> Slippage,
     symbol |-> "",
     rebalance_count |-> 0,
     max_profit |-> 0,
     unlimited_risk |-> FALSE]

(***************************************************************************)
(* PositionManager (position_manager.py).  Every operation is a function   *)
(* of the manager m = [positions, position_counter] and its arguments, and *)
(* yields the manager afterwards, the Trades returned and whether the call *)
(* raised.  positions is the dict in insertion order.                      *)
(***************************************************************************)
NewPositionManager == [positions |-> <<>>, position_counter |-> 0]

Result(m, trades, exc) == [pm |-> m, trades |-> trades, raised |-> exc]

\* the keys of self.positions; the keys of the positions a list of Trades closed
OpenIds(m) == {m.positions[i].id : i \in 1..Len(m.positions)}

TradeIds(trades) == {trades[i].pid : i \in 1..Len(trades)}

\* a key without the counter: two positions of one setup would share it
PositionIdNoCounter(m, position) == <<position.setup_id, 0>>

\* the key f"{position.setup_id}_{self.position_counter}"
PositionId(m, position) == <<position.setup_id, m.position_counter>>

\* add_position
AddPosition(m, position) ==
    LET id == PositionId(m, position)
        p == [position EXCEPT !.id = id]
        n == Len(m.positions)
        same == {i \in 1..n : m.positions[i].id = id}
    IN  [positions |-> IF same = {} THEN Append(m.positions, p)
                       ELSE [i \in 1..n |-> IF i \in same THEN p ELSE m.positions[i]],
         position_counter |-> m.position_counter + 1]

\* positions whose current_pnl is left as it was
MarkToMarketStale(positions, market_data) == positions

\* the loop body's position.current_pnl = _calculate_position_pnl(...)
MarkToMarket(positions, market_data) ==
    [i \in 1..Len(positions) |->
        [positions[i] EXCEPT !.current_pnl = CalculatePositionPnl(positions[i], market_data)]]

\* only the positions opened before the snapshot's timestamp
ExitCandidatesEarlier(positions, market_data) ==
    {i \in 1..Len(positions) : positions[i].entry_timeindex < market_data.timestamp}

\* the positions update_positions evaluates for exit
ExitCandidates(positions, market_data) == 1..Len(positions)

\* update_positions
UpdatePositions(m, market_data) ==
    LET marked == MarkToMarket(m.positions, market_data)
        n == Len(marked)
        reason(i) == CheckExitConditions(marked[i], market_data.timestamp)
        exits == {i \in ExitCandidates(m.positions, market_data) : reason(i) # ""}
    IN  Result([m EXCEPT !.positions = SelectIdx(marked, (1..n) \ exits, 1)],
               SelectIdx([i \in 1..n |-> ClosePosition(marked[i], market_data, reason(i))],
                         exits, 1),
               FALSE)

\* setup_close_times.get(position.setup_id, position.force_close_timeindex); in the
\* dict comprehension the last setup of an id wins
SetupCloseTime(position, strategies) ==
    LET same == {i \in 1..Len(strategies) : strategies[i].setup_id = position.setup_id}
    IN  IF same = {} THEN position.force_close_timeindex
        ELSE strategies[CHOOSE i \in same : \A j \in same : j <= i].close_timeindex

\* the MarketData check_time_based_closures builds for a closure
ClosureMarketData(current_timeindex) ==
    MakeMarketData([timestamp |-> current_timeindex, spot_price |-> 0,
                    option_prices |-> <<>>])

\* check_time_based_closures
CheckTimeBasedClosures(m, current_timeindex, strategies) ==
    LET n == Len(m.positions)
        due == {i \in 1..n :
                  current_timeindex >= SetupCloseTime(m.positions[i], strategies)}
        dummy == ClosureMarketData(current_timeindex)
    IN  IF due = {} THEN Result(m, <<>>, FALSE)
        ELSE IF ~dummy.ok THEN Result(m, <<>>, TRUE)
        ELSE Result([m EXCEPT !.positions = SelectIdx(m.positions, (1..n) \ due, 1)],
                    SelectIdx([i \in 1..n |->
                                  ClosePosition(m.positions[i], dummy.data, "TIME_BASED")],
                              due, 1),
                    FALSE)

\* get_total_pnl
GetTotalPnl(m) == SumSeq([i \in 1..Len(m.positions) |-> m.positions[i].current_pnl])

\* the Trades of close_all_positions with the dict left as it was
CloseAllPositionsNoClear(m, market_data, reason) ==
    Result(m,
           [i \in 1..Len(m.positions) |-> ClosePosition(m.positions[i], market_data, reason)],
           FALSE)

\* close_all_positions
CloseAllPositions(m, market_data, reason) ==
    Result([m EXCEPT !.positions = <<>>],
           [i \in 1..Len(m.positions) |-> ClosePosition(m.positions[i], market_data, reason)],
           FALSE)

\* close_setup_positions
CloseSetupPositions(m, setup_id, market_data, reason) ==
    LET n == Len(m.positions)
        mine == {i \in 1..n : m.positions[i].setup_id = setup_id}
    IN  Result([m EXCEPT !.positions = SelectIdx(m.positions, (1..n) \ mine, 1)],
               SelectIdx([i \in 1..n |-> ClosePosition(m.positions[i], market_data, reason)],
                         mine, 1),
               FALSE)

\* force_close_at_job_end
ForceCloseAtJobEnd(m, market_data) == CloseAllPositions(m, market_data, "JOB_END")

\* reset_positions
ResetPositions(m) == [positions |-> <<>>, position_counter |-> 0]

(***************************************************************************)
(* Strategies (strategies.py): StraddleSetup and GammaScalpingSetup.       *)
(* A setup is a record of its constructor arguments and, for gamma         *)
(* scalping, its tracking state.  The option chain of the model has one    *)
(* strike per option type, so strike selection picks that strike.          *)
(***************************************************************************)
StrikeK == 100            \* the strike of the model's option chain
RebalanceCutoff == 300    \* no rebalance from close_timeindex - 300 on
PriorityWindow == 360     \* closure is prioritised from close_timeindex - 360 on
DeltaITM == 6             \* 0.6, the delta of an in-the-money leg, in 0.1
DeltaOTM == 4             \* 0.4, the delta of an out-of-the-money leg, in 0.1
RatioStep == 2            \* position_ratios[...] += 0.2, in 0.1

Setup(kind, setup_id, target_pct, stop_loss_pct, entry_timeindex, close_timeindex) ==
    [kind |-> kind, setup_id |-> setup_id, target_pct |-> target_pct,
     stop_loss_pct |-> stop_loss_pct, entry_timeindex |-> entry_timeindex,
     close_timeindex |-> close_timeindex,
     delta_threshold |-> 10, rebalance_frequency |-> 1, max_rebalances |-> 1,
     last_rebalance_time |-> 0, rebalance_count |-> 0,
     ratio_ce |-> 10, ratio_pe |-> 10]

Abs(x) == IF x < 0 THEN -x ELSE x

\* check_entry_condition
CheckEntryCondition(setup, current_timeindex) ==
    current_timeindex = setup.entry_timeindex

OptionTypes == <<"CE", "PE">>

\* select_strikes over the one-strike chain: the option types present in the chain
SelectStrikes(market_data) ==
    SelectIdx(OptionTypes,
              {i \in 1..2 : HasPrice(market_data, OptionTypes[i], StrikeK)}, 1)

\* strikes = {"CE": k, "PE": k} over the selected option types
StrikesDict(types) ==
    [k \in {<<types[i]>> : i \in 1..Len(types)} |-> StrikeK]

\* entry_prices[f"{option_type}_{strike}"] = market_price, for the priced legs
EntryPrices(types, market_data) ==
    [i \in 1..Len(types) |->
        [key |-> <<Txt(types[i]), Num(StrikeK)>>,
         price |-> PriceOf(market_data, types[i], StrikeK)]]

\* StraddleSetup.create_positions and GammaScalpingSetup.create_positions
CreatePositions(setup, market_data) ==
    LET types == SelectStrikes(market_data)
        ptype == IF setup.kind = "GAMMA" THEN "GAMMA_SCALP" ELSE "SELL"
        enough == IF setup.kind = "GAMMA" THEN Len(types) = 2 ELSE Len(types) >= 1
    IN  IF ~enough THEN <<>>
        ELSE << Position(setup.setup_id, market_data.timestamp,
                         EntryPrices(types, market_data), StrikesDict(types), 1,
                         setup.target_pct, -Abs(setup.stop_loss_pct), ptype,
                         setup.close_timeindex) >>

\* the delta of one leg of _estimate_position_delta, in 0.01
LegDelta(setup, market_data, ot, strike) ==
    IF ~HasPrice(market_data, ot, strike) THEN 0
    ELSE IF ot = "CE"
    THEN (IF strike <= market_data.spot_price THEN DeltaITM ELSE DeltaOTM) * setup.ratio_ce
    ELSE IF ot = "PE"
    THEN -((IF strike >= market_data.spot_price THEN DeltaITM ELSE DeltaOTM) * setup.ratio_pe)
    ELSE 0

\* _estimate_position_delta
EstimatePositionDelta(setup, market_data, strikes) ==
    LET d(ot) == IF <<ot>> \in DOMAIN strikes
                 THEN LegDelta(setup, market_data, ot, strikes[<<ot>>]) ELSE 0
    IN  d("CE") + d("PE")

\* check_rebalancing_condition
CheckRebalancingCondition(setup, current_timeindex, market_data, position) ==
    IF current_timeindex >= setup.close_timeindex - RebalanceCutoff THEN FALSE
    ELSE IF \/ setup.rebalance_count >= setup.max_rebalances
            \/ current_timeindex < setup.last_rebalance_time + setup.rebalance_frequency
    THEN FALSE
    ELSE Abs(EstimatePositionDelta(setup, market_data, position.strikes))
            > setup.delta_threshold

\* the legs rebalance_position re-enters: those of current_position.strikes that are priced
RebalancedTypes(market_data, position) ==
    SelectIdx(OptionTypes,
              {i \in 1..2 : /\ <<OptionTypes[i]>> \in DOMAIN position.strikes
                            /\ HasPrice(market_data, OptionTypes[i],
                                        position.strikes[<<OptionTypes[i]>>])}, 1)

\* rebalance_position: the setup afterwards and the positions created
RebalancePosition(setup, market_data, position) ==
    LET delta == EstimatePositionDelta(setup, market_data, position.strikes)
        s1 == IF delta > setup.delta_threshold
              THEN [setup EXCEPT !.ratio_ce = @ + RatioStep]
              ELSE IF delta < -setup.delta_threshold
              THEN [setup EXCEPT !.ratio_pe = @ + RatioStep]
              ELSE setup
        types == RebalancedTypes(market_data, position)
        entries == [i \in 1..Len(types) |->
                      [key |-> <<Txt(types[i]), Num(position.strikes[<<types[i]>>])>>,
                       price |-> PriceOf(market_data, types[i],
                                         position.strikes[<<types[i]>>])]]
    IN  IF types = <<>> THEN [setup |-> s1, positions |-> <<>>]
        ELSE [setup |-> [s1 EXCEPT !.last_rebalance_time = market_data.timestamp,
                                   !.rebalance_count = @ + 1],
              positions |-> << Position(setup.setup_id, market_data.timestamp, entries,
                                        position.strikes, 1, setup.target_pct,
                                        -Abs(setup.stop_loss_pct),
                                        "GAMMA_SCALP_REBALANCED",
                                        setup.close_timeindex) >>]

\* should_prioritize_closure
ShouldPrioritizeClosure(setup, current_timeindex) ==
    current_timeindex >= setup.close_timeindex - PriorityWindow

\* reset_daily_state
ResetDailyState(setup) ==
    IF setup.kind = "GAMMA"
    THEN [setup EXCEPT !.last_rebalance_time = 0, !.rebalance_count = 0,
                       !.ratio_ce = 10, !.ratio_pe = 10]
    ELSE setup

(***************************************************************************)
(* update_gamma_scalping_positions (position_manager.py).                  *)
(***************************************************************************)
GammaTypes == {"GAMMA_SCALP", "GAMMA_SCALP_REBALANCED"}

\* the first setup of the position's id that has calculate_gamma_theta_pnl; 0 if none
GammaSetupIndex(strategies, position) ==
    LET c == {i \in 1..Len(strategies) :
                /\ strategies[i].setup_id = position.setup_id
                /\ strategies[i].kind = "GAMMA"}
    IN  IF c = {} THEN 0 ELSE CHOOSE i \in c : \A j \in c : i <= j

\* the replacements as rebalance_position made them, with rebalance_count 0
TagRebalancedNot(new_positions, position) == new_positions

\* rebalanced_pos.rebalance_count = position.rebalance_count + 1
TagRebalanced(new_positions, position) ==
    [k \in 1..Len(new_positions) |->
        [new_positions[k] EXCEPT !.rebalance_count = position.rebalance_count + 1]]

RECURSIVE GammaLoop(_, _, _, _)
\* the loop over self.positions; acc = [trades, remove, new, strategies]
GammaLoop(positions, i, market_data, acc) ==
    IF i > Len(positions) THEN acc
    ELSE
      LET p == positions[i]
          g == GammaSetupIndex(acc.strategies, p)
      IN  IF p.position_type \notin GammaTypes \/ g = 0
          THEN GammaLoop(positions, i + 1, market_data, acc)
          ELSE IF CheckRebalancingCondition(acc.strategies[g], market_data.timestamp,
                                            market_data, p)
          THEN LET rb == RebalancePosition(acc.strategies[g], market_data, p)
               IN  GammaLoop(positions, i + 1, market_data,
                       [trades |-> Append(acc.trades,
                                          ClosePosition(p, market_data, "REBALANCE")),
                        remove |-> acc.remove \cup {i},
                        new |-> acc.new \o TagRebalanced(rb.positions, p),
                        strategies |-> [acc.strategies EXCEPT ![g] = rb.setup]])
          ELSE IF ShouldPrioritizeClosure(acc.strategies[g], market_data.timestamp)
          THEN GammaLoop(positions, i + 1, market_data,
                   [acc EXCEPT !.trades = Append(@, ClosePosition(p, market_data,
                                                                  "PRIORITY_CLOSE")),
                               !.remove = @ \cup {i}])
          ELSE GammaLoop(positions, i + 1, market_data, acc)

RECURSIVE AddAll(_, _)
\* for new_position in new_positions: self.add_position(new_position)
AddAll(m, new_positions) ==
    IF new_positions = <<>> THEN m
    ELSE AddAll(AddPosition(m, Head(new_positions)), Tail(new_positions))

\* update_gamma_scalping_positions; the result also carries the setups afterwards
UpdateGammaScalpingPositions(m, market_data, strategies) ==
    Then(GammaLoop(m.positions, 1, market_data,
                   [trades |-> <<>>, remove |-> {}, new |-> <<>>,
                    strategies |-> strategies]), LAMBDA acc :
    Then([m EXCEPT !.positions =
                SelectIdx(m.positions, (1..Len(m.positions)) \ acc.remove, 1)],
         LAMBDA kept :
        [pm |-> AddAll(kept, acc.new), trades |-> acc.trades, raised |-> FALSE,
         setups |-> acc.strategies]))

(***************************************************************************)
(* RiskManager (risk_manager.py).                                          *)
(***************************************************************************)
\* __init__: self.daily_max_loss = abs(daily_max_loss)
NewRiskManager(daily_max_loss) == [daily_max_loss |-> Abs(daily_max_loss), daily_pnl |-> 0]

\* the limit test with a strict comparison: a loss equal to the limit passes
CheckDailyLimitStrict(rm, current_pnl) == current_pnl < -rm.daily_max_loss

\* check_daily_limit
CheckDailyLimit(rm, current_pnl) == current_pnl <= -rm.daily_max_loss

\* should_close_all_positions
ShouldCloseAllPositions(rm, total_pnl) == CheckDailyLimit(rm, total_pnl)

(***************************************************************************)
(* BacktestEngine (backtest_engine.py), with enable_dynamic_management     *)
(* off: the current setups are the base setups.                            *)
(***************************************************************************)
RECURSIVE NewPositions(_, _, _)
\* the entry loop: the positions created by the setups whose entry condition holds
NewPositions(strategies, i, market_data) ==
    IF i > Len(strategies) THEN <<>>
    ELSE (IF CheckEntryCondition(strategies[i], market_data.timestamp)
          THEN CreatePositions(strategies[i], market_data)
          ELSE <<>>)
         \o NewPositions(strategies, i + 1, market_data)

\* process_time_interval: entries, update_positions, update_gamma_scalping_positions,
\* check_time_based_closures; an exception leaves the interval's Trades unrecorded
ProcessTimeInterval(m, strategies, market_data) ==
    Then(AddAll(m, NewPositions(strategies, 1, market_data)), LAMBDA entered :
    Then(UpdatePositions(entered, market_data), LAMBDA r1 :
    Then(UpdateGammaScalpingPositions(r1.pm, market_data, strategies), LAMBDA r2 :
    Then(CheckTimeBasedClosures(r2.pm, market_data.timestamp, r2.setups), LAMBDA r3 :
        [pm |-> r3.pm, setups |-> r2.setups,
         trades |-> r1.trades \o r2.trades \o r3.trades, raised |-> r3.raised]))))

\* check_daily_risk_limits
CheckDailyRiskLimits(m, rm) == ShouldCloseAllPositions(rm, GetTotalPnl(m))

\* timestamp > job_end_idx: the tick of the job-end index itself is let through
ReachedJobEndStrict(timestamp, idx) == timestamp > idx

\* the job-end test of the day loops: timestamp >= job_end_idx
ReachedJobEnd(timestamp, idx) == timestamp >= idx

\* _process_symbol_time_interval: as process_time_interval, on the symbol's own
\* PositionManager, with the symbol written on new positions and on the Trades
ProcessSymbolTimeInterval(m, strategies, market_data, symbol) ==
    Then(NewPositions(strategies, 1, market_data), LAMBDA fresh :
    Then(AddAll(m, [k \in 1..Len(fresh) |-> [fresh[k] EXCEPT !.symbol = symbol]]),
         LAMBDA entered :
    Then(UpdatePositions(entered, market_data), LAMBDA r1 :
    Then(UpdateGammaScalpingPositions(r1.pm, market_data, strategies), LAMBDA r2 :
    Then(CheckTimeBasedClosures(r2.pm, market_data.timestamp, r2.setups), LAMBDA r3 :
    Then(r1.trades \o r2.trades \o r3.trades, LAMBDA trades :
        [pm |-> r3.pm, setups |-> r2.setups,
         trades |-> [k \in 1..Len(trades) |-> [trades[k] EXCEPT !.symbol = symbol]],
         raised |-> r3.raised]))))))

\* Trades with the symbol whose PositionManager returned them (owner is not a field
\* of Trade; kept because the Trades of a bulk closure carry no symbol)
Owned(trades, symbol) ==
    [k \in 1..Len(trades) |->
        [f \in DOMAIN trades[k] \cup {"owner"} |->
            IF f = "owner" THEN symbol ELSE trades[k][f]]]

RECURSIVE ProcessSymbols(_, _, _, _)
\* for symbol, market_data in symbol_market_data.items(): the symbols that have
\* data at the timestamp, in the order of symbol_data; acc = [spm, setups, trades, raised]
ProcessSymbols(order, i, data, acc) ==
    IF i > Len(order) \/ acc.raised THEN acc
    ELSE IF order[i] \notin DOMAIN data THEN ProcessSymbols(order, i + 1, data, acc)
    ELSE Then(ProcessSymbolTimeInterval(acc.spm[order[i]], acc.setups,
                                        data[order[i]], order[i]), LAMBDA r :
         Then([spm |-> [acc.spm EXCEPT ![order[i]] = r.pm],
               setups |-> r.setups,
               trades |-> acc.trades \o Owned(r.trades, order[i]),
               raised |-> r.raised], LAMBDA after :
             ProcessSymbols(order, i + 1, data, after)))

RECURSIVE SumTotalPnl(_, _)
\* _check_cross_symbol_risk_limits: the sum of get_total_pnl() over the managers
SumTotalPnl(managers, symbols) ==
    IF symbols = {} THEN 0
    ELSE LET s == CHOOSE x \in symbols : TRUE
         IN  GetTotalPnl(managers[s]) + SumTotalPnl(managers, symbols \ {s})

CheckCrossSymbolRiskLimits(managers, limit) ==
    SumTotalPnl(managers, DOMAIN managers) <= -limit

RECURSIVE CrossSymbolUnwind(_, _, _, _)
\* the closure loop of a cross-symbol breach: for symbol in symbols, if the symbol
\* has market data at the timestamp, close_all_positions(.., "CROSS_SYMBOL_LIMIT")
CrossSymbolUnwind(symbols, i, data, acc) ==
    IF i > Len(symbols) THEN acc
    ELSE IF symbols[i] \notin DOMAIN data THEN CrossSymbolUnwind(symbols, i + 1, data, acc)
    ELSE LET r == CloseAllPositions(acc.spm[symbols[i]], data[symbols[i]],
                                    "CROSS_SYMBOL_LIMIT")
         IN  CrossSymbolUnwind(symbols, i + 1, data,
                 [spm |-> [acc.spm EXCEPT ![symbols[i]] = r.pm],
                  trades |-> acc.trades \o Owned(r.trades, symbols[i])])

RECURSIVE JobEndClose(_, _, _, _, _)
\* the job-end loop: for symbol, data in symbol_data.items(), if the timestamp
\* reached the symbol's job_end_idx and the symbol has market data, force-close it
JobEndClose(order, i, timestamp, data, acc) ==
    IF i > Len(order) THEN acc
    ELSE IF \/ ~ReachedJobEnd(timestamp, acc.job_end_idx[order[i]])
            \/ order[i] \notin DOMAIN data
    THEN JobEndClose(order, i + 1, timestamp, data, acc)
    ELSE LET r == ForceCloseAtJobEnd(acc.spm[order[i]], data[order[i]])
         IN  JobEndClose(order, i + 1, timestamp, data,
                 [acc EXCEPT !.spm = [acc.spm EXCEPT ![order[i]] = r.pm],
                             !.trades = acc.trades \o Owned(r.trades, order[i])])

(***************************************************************************)
(* Inputs of the model: option chains, market data, positions, setups.     *)
(***************************************************************************)
\* a chain of one strike per option type; a price of 0 stands for "not quoted"
Chain(spot, ce, pe) ==
    [spot_price |-> spot,
     option_prices |->
        [k \in {q \in {<<"CE", StrikeK>>, <<"PE", StrikeK>>} :
                   (IF q[1] = "CE" THEN ce ELSE pe) > 0}
          |-> IF k[1] = "CE" THEN ce ELSE pe]]

\* flat, premium decay, a rally, a rally with the call unquoted
Chains == { Chain(100, 10, 10), Chain(100, 6, 6), Chain(101, 14, 10), Chain(101, 0, 10) }

Times == 1..MaxTime

MdInputs ==
    { MarketData(t, "QQQ", c.spot_price, c.option_prices) : t \in Times, c \in Chains }

NoMarketData == MarketData(0, "", 0, <<>>)

\* the strategies of the PositionManager runs
PMSetups ==
    << Setup("STRADDLE", "straddle", 3 * LotSize, 5 * LotSize, 1, 1),
       Setup("GAMMA", "gamma", 3 * LotSize, 5 * LotSize, 1, PriorityWindow + 2) >>

TwoLegs == << [key |-> <<Txt("CE"), Num(StrikeK)>>, price |-> 10],
              [key |-> <<Txt("PE"), Num(StrikeK)>>, price |-> 10] >>

BothStrikes == [k \in {<<"CE">>, <<"PE">>} |-> StrikeK]

\* a short straddle that outlives its setup's close time
SellStraddle ==
    Position("straddle", 1, TwoLegs, BothStrikes, 1, 3 * LotSize, -5 * LotSize, "SELL", 2)

\* an iron condor with an unquoted wing and unlimited-risk protection
IronCondor ==
    [Position("condor", 1,
              << [key |-> <<Txt("CE"), Num(StrikeK), Txt("SELL")>>, price |-> 10],
                 [key |-> <<Txt("PE"), Num(StrikeK), Txt("SELL")>>, price |-> 10],
                 [key |-> <<Txt("CE"), Num(StrikeK + 5), Txt("BUY")>>, price |-> 4] >>,
              BothStrikes, 1, 10 * LotSize, -8 * LotSize, "IRON_CONDOR",
              DefaultForceClose)
       EXCEPT !.max_profit = 4 * LotSize, !.unlimited_risk = TRUE]

\* a butterfly of which only the body is quoted
Butterfly ==
    [Position("butterfly", 1,
              << [key |-> <<Txt("CE"), Txt("BUY"), Txt("LOWER")>>, price |-> 12],
                 [key |-> <<Txt("CE"), Txt("SELL"), Txt("BODY")>>, price |-> 10],
                 [key |-> <<Txt("CE"), Txt("BUY"), Txt("UPPER")>>, price |-> 8] >>,
              [k \in {<<"CE", "BUY", "LOWER">>, <<"CE", "SELL", "BODY">>,
                      <<"CE", "BUY", "UPPER">>} |->
                  IF k[3] = "LOWER" THEN StrikeK - 5
                  ELSE IF k[3] = "BODY" THEN StrikeK ELSE StrikeK + 5],
              1, 20 * LotSize, -20 * LotSize, "BUTTERFLY", DefaultForceClose)
       EXCEPT !.max_profit = 5 * LotSize]

\* a call ratio spread: two calls sold
RatioSpread ==
    Position("ratio", 1,
             << [key |-> <<Txt("CE"), Num(StrikeK), Txt("SELL"), Num(2)>>, price |-> 10] >>,
             [k \in {<<"CE">>} |-> StrikeK], 1, 20 * LotSize, -16 * LotSize,
             "RATIO_SPREAD", DefaultForceClose)

\* a gamma-scalping position of the setup "gamma"
GammaScalp ==
    Position("gamma", 1, TwoLegs, BothStrikes, 1, 30 * LotSize, -50 * LotSize,
             "GAMMA_SCALP", PriorityWindow + 2)

\* a position whose only leg key is malformed ("CE_abc")
Malformed ==
    Position("orphan", 1, << [key |-> <<Txt("CE"), Txt("abc")>>, price |-> 10] >>,
             [k \in {<<"CE">>} |-> StrikeK], 1, 3 * LotSize, -5 * LotSize, "SELL", 2)

\* a short strangle at strikes no snapshot quotes
Unquoted ==
    Position("unquoted", 1,
             << [key |-> <<Txt("CE"), Num(StrikeK + 50)>>, price |-> 10],
                [key |-> <<Txt("PE"), Num(StrikeK - 50)>>, price |-> 10] >>,
             [k \in {<<"CE">>, <<"PE">>} |-> IF k = <<"CE">> THEN StrikeK + 50 ELSE StrikeK - 50],
             1, 3 * LotSize, -5 * LotSize, "SELL", 2)

\* the positions handed to add_position in SpecPM
PositionInputs == {SellStraddle, GammaScalp, Malformed}

\* the positions of SpecExit: every position type with an exit rule of its own
ExitInputs == {SellStraddle, IronCondor, Butterfly, RatioSpread, Malformed, Unquoted}

(***************************************************************************)
(* Specification SpecPM: a PositionManager driven by any sequence of its   *)
(* operations, with any of the input positions and market data.            *)
(***************************************************************************)
Call(op, timeindex, setup_id, reason, listed) ==
    [op |-> op, timeindex |-> timeindex, setup_id |-> setup_id, reason |-> reason,
     listed |-> listed]

InitDay ==
    /\ pc = "OFF" /\ now = 0 /\ processed = <<>> /\ job_end_idx = 0
    /\ risk = [daily_max_loss |-> 0, daily_pnl |-> 0, cross_symbol_risk_limit |-> 0]
    /\ daily_trades = <<>> /\ atCheck = NewPositionManager

InitMulti == spm = <<>> /\ srm = <<>> /\ symbol_data = <<>>

\* the components a specification does not exercise stay unconstructed
InitUnit == loader = <<>> /\ detector = <<>> /\ dsm = <<>> /\ calc = <<>>

InitPM ==
    /\ pm = NewPositionManager
    /\ setups = PMSetups
    /\ call = Call("__init__", 0, "", "", FALSE)
    /\ md = NoMarketData
    /\ pre = NewPositionManager
    /\ ret = <<>>
    /\ raised = FALSE
    /\ added = 0
    /\ closed = 0
    /\ InitDay
    /\ InitMulti
    /\ InitUnit

\* what every PositionManager call leaves behind
Returned(c, data, r) ==
    /\ call' = c
    /\ md' = data
    /\ pre' = pm
    /\ pm' = r.pm
    /\ ret' = r.trades
    /\ raised' = r.raised
    /\ closed' = closed + Len(r.trades)
    /\ UNCHANGED <<dayVars, multiVars, unitVars>>

PMAdd ==
    \E p \in PositionInputs :
        /\ pm.position_counter < MaxAdds
        /\ Returned(Call("add_position", 0, p.setup_id, "", FALSE), md,
                    Result(AddPosition(pm, p), <<>>, FALSE))
        /\ added' = added + 1
        /\ UNCHANGED setups

PMUpdate ==
    \E m \in MdInputs :
        /\ Returned(Call("update_positions", m.timestamp, "", "", FALSE), m,
                    UpdatePositions(pm, m))
        /\ UNCHANGED <<setups, added>>

\* The rebalancing and the closures are handed the MarketData of the latest
\* update, as the engine does within a tick.
PMGamma ==
    LET r == UpdateGammaScalpingPositions(pm, md, setups)
    IN  /\ Returned(Call("update_gamma_scalping_positions", md.timestamp, "", "", TRUE),
                    md, r)
        /\ setups' = r.setups
        /\ added' = added + (r.pm.position_counter - pm.position_counter)

PMTimeClosures ==
    \E t \in Times, listed \in BOOLEAN :
        /\ Returned(Call("check_time_based_closures", t, "", "", listed), md,
                    CheckTimeBasedClosures(pm, t, IF listed THEN setups ELSE <<>>))
        /\ UNCHANGED <<setups, added>>

PMCloseAll ==
    /\ Returned(Call("close_all_positions", md.timestamp, "", "FORCE_CLOSE", FALSE), md,
                CloseAllPositions(pm, md, "FORCE_CLOSE"))
    /\ UNCHANGED <<setups, added>>

PMCloseSetup ==
    \E sid \in {pm.positions[i].setup_id : i \in 1..Len(pm.positions)} :
        /\ Returned(Call("close_setup_positions", md.timestamp, sid, "SETUP_CLOSE", FALSE),
                    md, CloseSetupPositions(pm, sid, md, "SETUP_CLOSE"))
        /\ UNCHANGED <<setups, added>>

PMReset ==
    /\ call' = Call("reset_positions", 0, "", "", FALSE)
    /\ pre' = pm
    /\ pm' = ResetPositions(pm)
    /\ ret' = <<>>
    /\ raised' = FALSE
    /\ added' = 0
    /\ closed' = 0
    /\ UNCHANGED <<md, setups, dayVars, multiVars, unitVars>>

NextPM ==
    \/ PMAdd
    \/ PMUpdate
    \/ PMGamma
    \/ PMTimeClosures
    \/ PMCloseAll
    \/ PMCloseSetup
    \/ PMReset

SpecPM == InitPM /\ [][NextPM]_vars

(***************************************************************************)
(* Specification SpecExit: update_positions applied to a manager holding   *)
(* one position of any position type, under any market data.               *)
(***************************************************************************)
InitExit ==
    /\ \E p \in ExitInputs : pm = AddPosition(NewPositionManager, p)
    /\ setups = PMSetups
    /\ call = Call("add_position", 0, "", "", FALSE)
    /\ md = NoMarketData
    /\ pre = NewPositionManager
    /\ ret = <<>>
    /\ raised = FALSE
    /\ added = 1
    /\ closed = 0
    /\ InitDay
    /\ InitMulti
    /\ InitUnit

\* one more position, so that a call evaluates several positions
ExitAdd ==
    \E p \in ExitInputs :
        /\ pm.position_counter < MaxAdds
        /\ Returned(Call("add_position", 0, p.setup_id, "", FALSE), md,
                    Result(AddPosition(pm, p), <<>>, FALSE))
        /\ added' = added + 1
        /\ UNCHANGED setups

ExitUpdate ==
    \E m \in MdInputs :
        /\ Returned(Call("update_positions", m.timestamp, "", "", FALSE), m,
                    UpdatePositions(pm, m))
        /\ UNCHANGED <<setups, added>>

NextExit ==
    \/ ExitAdd
    \/ ExitUpdate

SpecExit == InitExit /\ [][NextExit]_vars

(***************************************************************************)
(* Specification SpecDay: process_trading_day, from the state after the    *)
(* day's resets, for any data of the day, any job-end index and any of the *)
(* configurations below.  An action is one iteration of the loop over the  *)
(* sorted timestamps.                                                      *)
(***************************************************************************)
DaySymbol == "SPY"

\* daily_max_loss as configured (the sign is the caller's)
DayLimits == {-8 * LotSize, 8 * LotSize, 50 * LotSize}

\* a straddle of any stop, entry and close time, and a gamma-scalping setup
DaySetups(stop, entry, close) ==
    << Setup("STRADDLE", "straddle", 3 * LotSize, stop, entry, close),
       Setup("GAMMA", "gamma", 30 * LotSize, 50 * LotSize, 1, PriorityWindow + 2) >>

DayConfigs ==
    { DaySetups(stop, entry, close) :
        stop \in {4 * LotSize, 20 * LotSize}, entry \in {1, 2},
        close \in {MaxTicks, DefaultForceClose} }

InitRun ==
    /\ pm = NewPositionManager
    /\ call = Call("__init__", 0, "", "", FALSE)
    /\ md = NoMarketData
    /\ pre = NewPositionManager
    /\ ret = <<>>
    /\ raised = FALSE
    /\ added = 0
    /\ closed = 0
    /\ pc = "RUNNING"
    /\ now = 0
    /\ processed = <<>>
    /\ daily_trades = <<>>

InitSpecDay ==
    /\ InitRun
    /\ setups \in DayConfigs
    /\ job_end_idx \in 1..(MaxTicks + 1)
    /\ \E limit \in DayLimits :
          risk = [f \in {"daily_max_loss", "daily_pnl", "cross_symbol_risk_limit"} |->
                     IF f = "cross_symbol_risk_limit" THEN 0
                     ELSE NewRiskManager(limit)[f]]
    /\ atCheck = NewPositionManager
    /\ InitMulti
    /\ InitUnit

\* an iteration for a timestamp that has option and spot data
DayStep ==
    /\ pc = "RUNNING"
    /\ now < MaxTicks
    /\ \E c \in Chains :
       \E market_data \in {MarketData(now + 1, DaySymbol, c.spot_price, c.option_prices)} :
       \E step \in {ProcessTimeInterval(pm, setups, market_data)} :
          LET t == now + 1
              breach == CheckDailyRiskLimits(step.pm, risk)
              job_end == ReachedJobEnd(t, job_end_idx)
              emergency == CloseAllPositions(step.pm, market_data, "DAILY_LIMIT")
              forced == ForceCloseAtJobEnd(step.pm, market_data)
          IN  /\ now' = t
              /\ md' = market_data
              /\ setups' = step.setups
              /\ IF step.raised
                 THEN /\ pc' = "CRASHED"
                      /\ pm' = step.pm
                      /\ UNCHANGED <<processed, daily_trades, atCheck>>
                 ELSE /\ atCheck' = step.pm
                      /\ processed' = Append(processed,
                              [timestamp |-> t, total_pnl |-> GetTotalPnl(step.pm)])
                      /\ pc' = IF breach THEN "RISK_HALT"
                               ELSE IF job_end THEN "JOB_END" ELSE "RUNNING"
                      /\ pm' = IF breach THEN emergency.pm
                               ELSE IF job_end THEN forced.pm ELSE step.pm
                      /\ daily_trades' = daily_trades \o step.trades \o
                              (IF breach THEN emergency.trades
                               ELSE IF job_end THEN forced.trades ELSE <<>>)
    /\ UNCHANGED <<call, pre, ret, raised, added, closed, job_end_idx, risk, multiVars, unitVars>>

\* an iteration for a timestamp that lacks option data or spot data: continue
DaySkip ==
    /\ pc = "RUNNING"
    /\ now < MaxTicks
    /\ now' = now + 1
    /\ UNCHANGED <<pmVars, pc, processed, job_end_idx, risk, daily_trades, atCheck,
                   multiVars, unitVars>>

\* the loop runs out of timestamps
DayExhausted ==
    /\ pc = "RUNNING"
    /\ now = MaxTicks
    /\ pc' = "EXHAUSTED"
    /\ UNCHANGED <<pmVars, now, processed, job_end_idx, risk, daily_trades, atCheck,
                   multiVars, unitVars>>

NextDay ==
    \/ DayStep
    \/ DaySkip
    \/ DayExhausted

SpecDay == InitSpecDay /\ [][NextDay]_vars

(***************************************************************************)
(* Specification SpecMulti: _process_multi_symbol_trading_day for two      *)
(* symbols, from the state after the day's resets.  The symbols share the  *)
(* base setups; each has its PositionManager and its RiskManager.          *)
(***************************************************************************)
Symbols == <<"QQQ", "SPY">>

\* symbol_data is filled as the concurrent loads complete: either order
LoadOrders == { <<"QQQ", "SPY">>, <<"SPY", "QQQ">> }

\* flat, and a rally
MultiChains == { Chain(100, 10, 10), Chain(101, 14, 10) }

\* a straddle and a gamma-scalping setup that stay open through the day
MultiSetups ==
    << Setup("STRADDLE", "straddle", 30 * LotSize, 20 * LotSize, 1, DefaultForceClose),
       Setup("GAMMA", "gamma", 30 * LotSize, 50 * LotSize, 1, DefaultForceClose) >>

InitSpecMulti ==
    /\ InitRun
    /\ InitUnit
    /\ setups = MultiSetups
    /\ job_end_idx = 0
    /\ \E limit \in {8 * LotSize, 50 * LotSize} :
       \E cross \in {20 * LotSize, 100 * LotSize} :
          /\ risk = [f \in {"daily_max_loss", "daily_pnl", "cross_symbol_risk_limit"} |->
                       IF f = "cross_symbol_risk_limit" THEN cross
                       ELSE NewRiskManager(limit)[f]]
          /\ srm = [s \in Range(Symbols) |-> NewRiskManager(NewRiskManager(limit).daily_max_loss)]
    /\ spm = [s \in Range(Symbols) |-> NewPositionManager]
    /\ atCheck = [s \in Range(Symbols) |-> NewPositionManager]
    /\ \E order \in LoadOrders :
       \E ends \in [Range(Symbols) -> {MaxTicks - 1, MaxTicks + 1}] :
          symbol_data = [order |-> order, job_end_idx |-> ends]

\* an iteration for a timestamp at which some symbol has option and spot data
MultiStep ==
    /\ pc = "RUNNING"
    /\ now < MaxTicks
    /\ \E present \in (SUBSET Range(Symbols)) \ {{}} :
       \E chain \in [present -> MultiChains] :
       \E data \in {[s \in present |->
                       MarketData(now + 1, s, chain[s].spot_price,
                                  chain[s].option_prices)]} :
       \E step \in {ProcessSymbols(symbol_data.order, 1, data,
                                   [spm |-> spm, setups |-> setups, trades |-> <<>>,
                                    raised |-> FALSE])} :
          LET t == now + 1
              breach == CheckCrossSymbolRiskLimits(step.spm, risk.cross_symbol_risk_limit)
              unwound == CrossSymbolUnwind(Symbols, 1, data,
                                           [spm |-> step.spm, trades |-> <<>>])
              job_end == \E s \in Range(symbol_data.order) :
                            ReachedJobEnd(t, symbol_data.job_end_idx[s])
              forced == JobEndClose(symbol_data.order, 1, t, data,
                                    [spm |-> step.spm, trades |-> <<>>,
                                     job_end_idx |-> symbol_data.job_end_idx])
          IN  /\ now' = t
              /\ setups' = step.setups
              /\ IF step.raised
                 THEN /\ pc' = "CRASHED"
                      /\ spm' = step.spm
                      /\ UNCHANGED <<processed, daily_trades, atCheck>>
                 ELSE /\ atCheck' = step.spm
                      /\ processed' = Append(processed,
                              [timestamp |-> t,
                               present |-> present,
                               breach |-> breach,
                               total_pnl |-> [s \in Range(Symbols) |->
                                                 GetTotalPnl(step.spm[s])],
                               open |-> [s \in Range(Symbols) |-> OpenIds(step.spm[s])]])
                      /\ pc' = IF breach THEN "CROSS_HALT"
                               ELSE IF job_end THEN "JOB_END" ELSE "RUNNING"
                      /\ spm' = IF breach THEN unwound.spm
                                ELSE IF job_end THEN forced.spm ELSE step.spm
                      /\ daily_trades' = daily_trades \o step.trades \o
                              (IF breach THEN unwound.trades
                               ELSE IF job_end THEN forced.trades ELSE <<>>)
    /\ UNCHANGED <<pm, call, md, pre, ret, raised, added, closed, job_end_idx, risk,
                   srm, symbol_data, unitVars>>

\* an iteration for a timestamp at which no symbol has both kinds of data: continue
MultiSkip ==
    /\ pc = "RUNNING"
    /\ now < MaxTicks
    /\ now' = now + 1
    /\ UNCHANGED <<pmVars, pc, processed, job_end_idx, risk, daily_trades, atCheck,
                   multiVars, unitVars>>

\* the loop runs out of timestamps
MultiExhausted ==
    /\ pc = "RUNNING"
    /\ now = MaxTicks
    /\ pc' = "EXHAUSTED"
    /\ UNCHANGED <<pmVars, now, processed, job_end_idx, risk, daily_trades, atCheck,
                   multiVars, unitVars>>

NextMulti ==
    \/ MultiStep
    \/ MultiSkip
    \/ MultiExhausted

SpecMulti == InitSpecMulti /\ [][NextMulti]_vars

(***************************************************************************)
(* Properties of the PositionManager.                                      *)
(***************************************************************************)
\* C1 (closure completeness): after close_all_positions returns, the open set is
\* empty and as many Trades were returned as positions were open before the call.
C1_ClosureComplete ==
    call.op = "close_all_positions" =>
        /\ ~raised
        /\ pm.positions = <<>>
        /\ Len(ret) = Len(pre.positions)
        /\ TradeIds(ret) = OpenIds(pre)

C1_Witness ==
    /\ call.op = "close_all_positions"
    /\ Len(pre.positions) >= 2
    /\ Len(ret) >= 2

\* C2 (closed exactly once): between two resets, every call removes exactly the
\* positions it returns a Trade for, one Trade each, the keys of the open
\* positions are distinct, and Trades returned + positions open = positions added.
C2_ClosedExactlyOnce ==
    /\ closed + Len(pm.positions) = added
    /\ Cardinality(OpenIds(pm)) = Len(pm.positions)
    /\ call.op \notin {"reset_positions", "__init__"} =>
          /\ Cardinality(TradeIds(ret)) = Len(ret)
          /\ TradeIds(ret) = OpenIds(pre) \ OpenIds(pm)

C2_Witness ==
    /\ call.op = "update_gamma_scalping_positions"
    /\ \E i \in 1..Len(ret) : ret[i].exit_reason = "REBALANCE"
    /\ Len(pm.positions) >= 1
    /\ closed >= 1

\* the P&L of every open position recomputed from its entry leg prices and the
\* latest market data
RecomputedTotal(m, market_data) ==
    SumSeq([i \in 1..Len(m.positions) |->
               SumSeq([j \in 1..Len(m.positions[i].entry_prices) |->
                          LegPnlNow(m.positions[i], market_data,
                                    m.positions[i].entry_prices[j])])])

\* C3 as claimed (conservation after any sequence of operations): get_total_pnl()
\* equals the sum of the open positions' P&L recomputed from the latest snapshot.
C3_ConservationAlways == GetTotalPnl(pm) = RecomputedTotal(pm, md)

\* C3 as amended: right after update_positions(snapshot) returns, get_total_pnl()
\* equals the sum of the open positions' P&L recomputed from that snapshot.
C3_ConservationAfterUpdate ==
    call.op = "update_positions" => GetTotalPnl(pm) = RecomputedTotal(pm, md)

C3_Witness ==
    /\ call.op = "update_positions"
    /\ Len(pm.positions) >= 2
    /\ GetTotalPnl(pm) # 0
    /\ \E i \in 1..Len(pm.positions) :
          \E j \in 1..Len(pm.positions[i].entry_prices) :
              LET d == ParseOptionKey(pm.positions[i].entry_prices[j].key, pm.positions[i])
              IN  ~HasPrice(md, d.option_type, d.strike)

\* the exit rules in the order of the claim: <<reason, whether it matches>>
ExitRules(p, t) ==
    << <<"TARGET", p.target_pnl > 0 /\ p.current_pnl >= p.target_pnl>>,
       <<"STOP_LOSS", p.stop_loss_pnl < 0 /\ p.current_pnl <= p.stop_loss_pnl>>,
       <<"UNLIMITED_RISK_PROTECTION",
         p.unlimited_risk /\ 2 * p.current_pnl <= p.stop_loss_pnl>>,
       <<"EARLY_PROFIT_TARGET",
         \/ /\ p.position_type = "IRON_CONDOR" /\ p.max_profit > 0
            /\ 2 * p.current_pnl >= p.max_profit
         \/ /\ p.position_type = "BUTTERFLY" /\ p.max_profit > 0
            /\ 10 * p.current_pnl >= 6 * p.max_profit>>,
       <<"RATIO_SPREAD_PROTECTION",
         p.position_type = "RATIO_SPREAD" /\ 4 * p.current_pnl <= 3 * p.stop_loss_pnl>>,
       <<"TIME_BASED", t >= p.force_close_timeindex>> >>

Matching(p, t) == {k \in 1..Len(ExitRules(p, t)) : ExitRules(p, t)[k][2]}

FirstMatch(p, t) ==
    IF Matching(p, t) = {} THEN ""
    ELSE ExitRules(p, t)[CHOOSE k \in Matching(p, t) : \A l \in Matching(p, t) : k <= l][1]

\* a position of before the call, with the P&L the call computes for it
MarkedBefore(i) ==
    [pre.positions[i] EXCEPT !.current_pnl = RecomputedTotal(
        [positions |-> <<pre.positions[i]>>, position_counter |-> 0], md)]

\* C4 (exit priority): update_positions closes a position iff some exit rule
\* matches it, with the reason of the first matching rule in the order target,
\* stop-loss, unlimited-risk protection, position-type early exit, time.
C4_ExitPriority ==
    call.op = "update_positions" =>
        \A i \in 1..Len(pre.positions) :
            LET p == MarkedBefore(i)
                want == FirstMatch(p, md.timestamp)
            IN  /\ want = "" <=> p.id \in OpenIds(pm)
                /\ want # "" =>
                      \E k \in 1..Len(ret) :
                          ret[k].pid = p.id /\ ret[k].exit_reason = want

\* a position closed with reason TARGET although a later rule (time) matched too
C4_Witness ==
    /\ call.op = "update_positions"
    /\ \E i \in 1..Len(pre.positions) :
          /\ Cardinality(Matching(MarkedBefore(i), md.timestamp)) >= 2
          /\ 1 \in Matching(MarkedBefore(i), md.timestamp)
          /\ \E k \in 1..Len(ret) :
                ret[k].pid = pre.positions[i].id /\ ret[k].exit_reason = "TARGET"

\* the positions check_time_based_closures(t, strategies) is to close
DueBefore ==
    {i \in 1..Len(pre.positions) :
        call.timeindex >=
            SetupCloseTime(pre.positions[i], IF call.listed THEN setups ELSE <<>>)}

\* C10 as claimed: check_time_based_closures completes without error, returns one
\* TIME_BASED Trade for each position whose close time is <= t, removes exactly
\* those positions and leaves the others open.
C10_TimeClosures ==
    call.op = "check_time_based_closures" =>
        /\ ~raised
        /\ Len(ret) = Cardinality(DueBefore)
        /\ \A k \in 1..Len(ret) : ret[k].exit_reason = "TIME_BASED"
        /\ TradeIds(ret) = {pre.positions[i].id : i \in DueBefore}
        /\ pm.positions = SelectIdx(pre.positions, (1..Len(pre.positions)) \ DueBefore, 1)

(***************************************************************************)
(* Properties of the trading day.                                          *)
(***************************************************************************)
\* a position of the last after-step checks has a Trade of the given reason at the
\* timestamp of those checks
ClosedAtCheck(p, reason) ==
    \E j \in 1..Len(daily_trades) :
        /\ daily_trades[j].pid = p.id
        /\ daily_trades[j].exit_reason = reason
        /\ daily_trades[j].exit_timeindex = processed[Len(processed)].timestamp

\* C5 (daily limit, single symbol): daily_max_loss is held as a magnitude, and a
\* step after which total open P&L <= -daily_max_loss is the day's last: every
\* position open after it is closed at that tick with reason DAILY_LIMIT, no later
\* timestamp is reached and no position is opened afterwards.
C5_DailyLimitHalt ==
    /\ risk.daily_max_loss >= 0
    /\ \A k \in 1..Len(processed) :
          processed[k].total_pnl <= -risk.daily_max_loss =>
              /\ k = Len(processed)
              /\ pc = "RISK_HALT"
              /\ now = processed[k].timestamp
              /\ pm.positions = <<>>
              /\ pm.position_counter = atCheck.position_counter
              /\ \A i \in 1..Len(atCheck.positions) :
                    ClosedAtCheck(atCheck.positions[i], "DAILY_LIMIT")

C5_Witness ==
    /\ pc = "RISK_HALT"
    /\ now < MaxTicks
    /\ Len(atCheck.positions) >= 2
    /\ processed[Len(processed)].total_pnl = -risk.daily_max_loss

\* C8 (job end, single symbol): with no risk breach so far, the first processed
\* timestamp >= job_end_idx is the day's last: every position open after its step
\* is closed at that tick with reason JOB_END and no later timestamp is reached.
C8_JobEndClose ==
    \A k \in 1..Len(processed) :
        (/\ processed[k].timestamp >= job_end_idx
         /\ \A j \in 1..k : processed[j].total_pnl > -risk.daily_max_loss) =>
            /\ k = Len(processed)
            /\ pc = "JOB_END"
            /\ now = processed[k].timestamp
            /\ pm.positions = <<>>
            /\ \A i \in 1..Len(atCheck.positions) :
                  ClosedAtCheck(atCheck.positions[i], "JOB_END")

\* the job-end index itself had no data: the close comes at a later timestamp
C8_Witness ==
    /\ pc = "JOB_END"
    /\ now > job_end_idx
    /\ now < MaxTicks + 1
    /\ Len(processed) >= 2
    /\ Len(atCheck.positions) >= 1

\* the reasons update_positions closes with
ExitEvaluationReasons ==
    {"TARGET", "STOP_LOSS", "UNLIMITED_RISK_PROTECTION", "EARLY_PROFIT_TARGET",
     "RATIO_SPREAD_PROTECTION", "TIME_BASED"}

\* C9 as claimed: no position is closed by the exit evaluation of the timestamp at
\* which it was opened.
C9_NoSameTickExit ==
    \A j \in 1..Len(daily_trades) :
        daily_trades[j].exit_reason \in ExitEvaluationReasons =>
            daily_trades[j].exit_timeindex # daily_trades[j].entry_timeindex

\* C9 as amended: a position opened by an entry at a tick goes through that tick's
\* exit evaluation: when it is still open after the step, it is marked to the
\* tick's prices and no exit condition holds for it at that tick.
C9_SameTickEvaluation ==
    \A i \in 1..Len(atCheck.positions) :
        (/\ atCheck.positions[i].entry_timeindex = md.timestamp
         /\ atCheck.positions[i].rebalance_count = 0) =>
            /\ atCheck.positions[i].current_pnl =
                  CalculatePositionPnl(atCheck.positions[i], md)
            /\ FirstMatch(atCheck.positions[i], md.timestamp) = ""

\* of two positions opened at a tick, one is closed by that tick's exit evaluation
\* and the other stays open
C9_Witness ==
    /\ \E j \in 1..Len(daily_trades) :
          /\ daily_trades[j].exit_reason = "STOP_LOSS"
          /\ daily_trades[j].entry_timeindex = md.timestamp
          /\ daily_trades[j].exit_timeindex = md.timestamp
    /\ \E i \in 1..Len(atCheck.positions) :
          /\ atCheck.positions[i].entry_timeindex = md.timestamp
          /\ atCheck.positions[i].rebalance_count = 0

(***************************************************************************)
(* Properties of the multi-symbol trading day.                             *)
(***************************************************************************)
\* a position of symbol s has a Trade of the given reason at the given timestamp
SymbolClosedAt(s, id, reason, timestamp) ==
    \E j \in 1..Len(daily_trades) :
        /\ daily_trades[j].owner = s
        /\ daily_trades[j].pid = id
        /\ daily_trades[j].exit_reason = reason
        /\ daily_trades[j].exit_timeindex = timestamp

\* C6 as claimed: when a symbol's open P&L is <= -daily_max_loss of its RiskManager
\* after its step (and the cross-symbol limit is not hit), every position of the
\* symbol open after the step has a Trade with reason DAILY_LIMIT at that tick.
C6_SymbolDailyLimit ==
    \A k \in 1..Len(processed) :
        \A s \in processed[k].present :
            (/\ ~processed[k].breach
             /\ processed[k].total_pnl[s] <= -srm[s].daily_max_loss) =>
                \A id \in processed[k].open[s] :
                    SymbolClosedAt(s, id, "DAILY_LIMIT", processed[k].timestamp)

\* C7 as claimed: when after a timestamp's steps the sum of the symbols' open P&L
\* is <= -cross_symbol_risk_limit, then once the day's processing has stopped every
\* symbol's open set is empty and every position open at the breach has a Trade
\* with reason CROSS_SYMBOL_LIMIT.
C7_CrossSymbolUnwind ==
    \A k \in 1..Len(processed) :
        (/\ SumSeq([i \in 1..Len(Symbols) |-> processed[k].total_pnl[Symbols[i]]])
               <= -risk.cross_symbol_risk_limit
         /\ pc # "RUNNING") =>
            \A s \in Range(Symbols) :
                /\ spm[s].positions = <<>>
                /\ \A id \in processed[k].open[s] :
                      SymbolClosedAt(s, id, "CROSS_SYMBOL_LIMIT", processed[k].timestamp)

(***************************************************************************)
(* DataLoader.load_multiple_symbols.  A dict is the sequence of its items  *)
(* in insertion order; the file system is the function from a symbol's      *)
(* directory to the state of its option file and of its .prop file.         *)
(***************************************************************************)
MaxSymbols == 3            \* the longest requested list of symbols
MaxWorkers == 4            \* ThreadPoolExecutor(max_workers=4)
FallbackJobEndIdx == 4660  \* metadata.get("jobEndIdx", 4660)

SupportedSymbols == {"QQQ", "SPY"}
RequestedNames == SupportedSymbols \cup {"IWM"}
None == [none |-> TRUE]

DictKeys(d) == {d[i].key : i \in 1..Len(d)}
DictItems(d) == {<<d[i].key, d[i].value>> : i \in 1..Len(d)}
DictSet(d, k, v) ==
    IF k \in DictKeys(d)
    THEN [i \in 1..Len(d) |-> IF d[i].key = k THEN [key |-> k, value |-> v] ELSE d[i]]
    ELSE Append(d, [key |-> k, value |-> v])

\* the rows of the option file read before the parser's try block ends
ParseOptionData(option_file) == IF option_file = "ROWS" THEN "ALL" ELSE "SOME"

\* the properties of the .prop file; a missing or unreadable file has none
ParsePropFile(prop_file) == IF prop_file = 0 THEN {} ELSE {<<"jobEndIdx", prop_file>>}

MetadataGet(metadata, key, default) ==
    IF \E kv \in metadata : kv[1] = key
    THEN (CHOOSE kv \in metadata : kv[1] = key)[2]
    ELSE default

LoadTradingDay(files, symbol) ==
    IF symbol \notin SupportedSymbols THEN None
    ELSE IF files[symbol].option_file = "ABSENT" THEN None
    ELSE [symbol |-> symbol,
          option_data |-> ParseOptionData(files[symbol].option_file),
          job_end_idx |-> MetadataGet(ParsePropFile(files[symbol].prop_file),
                                      "jobEndIdx", FallbackJobEndIdx),
          metadata |-> ParsePropFile(files[symbol].prop_file)]

RECURSIVE SequentialLoop(_, _, _, _)
SequentialLoop(files, symbols, i, results) ==
    IF i > Len(symbols) THEN results
    ELSE SequentialLoop(files, symbols, i + 1,
            IF LoadTradingDay(files, symbols[i]) # None
            THEN DictSet(results, symbols[i], LoadTradingDay(files, symbols[i]))
            ELSE results)

LoadMultipleSymbolsSequential(files, symbols) == SequentialLoop(files, symbols, 1, <<>>)

\* a variant of the collection step that stores whatever the future returned
CollectResultAlways(results, symbol, data) == DictSet(results, symbol, data)

\* the body of the as_completed loop for one future that returned data
CollectResult(results, symbol, data) ==
    IF data # None THEN DictSet(results, symbol, data) ELSE results

FileStates ==
    {[option_file |-> "ABSENT", prop_file |-> 0],
     [option_file |-> "ROWS", prop_file |-> 4650],
     [option_file |-> "BROKEN", prop_file |-> 0]}

SymbolLists == UNION {[1..n -> RequestedNames] : n \in 0..MaxSymbols}

(***************************************************************************)
(* Specification SpecLoader: one call of the concurrent form.  The main    *)
(* thread submits one future per listed symbol, the pool's workers take    *)
(* the queued futures in order and finish in any order, and the main       *)
(* thread collects the finished futures in the order as_completed yields.  *)
(***************************************************************************)
InitIdle ==
    /\ pm = NewPositionManager
    /\ setups = <<>>
    /\ call = Call("__init__", 0, "", "", FALSE)
    /\ md = NoMarketData
    /\ pre = NewPositionManager
    /\ ret = <<>>
    /\ raised = FALSE
    /\ added = 0
    /\ closed = 0
    /\ InitDay
    /\ InitMulti

InitLoader ==
    /\ InitIdle
    /\ detector = <<>> /\ dsm = <<>> /\ calc = <<>>
    /\ \E files \in [SupportedSymbols -> FileStates] :
       \E symbols \in SymbolLists :
          loader = [files |-> files, symbols |-> symbols, futures |-> <<>>,
                    yielded |-> {}, results |-> <<>>, pc |-> "CALLED"]

Running(futures) == {i \in 1..Len(futures) : futures[i].state = "RUNNING"}
Pending(futures) == {i \in 1..Len(futures) : futures[i].state = "PENDING"}

LoaderSubmit ==
    /\ loader.pc = "CALLED"
    /\ loader' = [loader EXCEPT
          !.futures = [i \in 1..Len(loader.symbols) |->
                         [symbol |-> loader.symbols[i], state |-> "PENDING",
                          result |-> None]],
          !.pc = "COLLECTING"]
    /\ UNCHANGED <<engineVars, detector, dsm, calc>>

WorkerStart ==
    \E i \in Pending(loader.futures) :
        /\ \A j \in Pending(loader.futures) : i <= j
        /\ Cardinality(Running(loader.futures)) < MaxWorkers
        /\ loader' = [loader EXCEPT !.futures[i].state = "RUNNING"]
        /\ UNCHANGED <<engineVars, detector, dsm, calc>>

WorkerFinish ==
    \E i \in Running(loader.futures) :
        /\ loader' = [loader EXCEPT
              !.futures[i].state = "FINISHED",
              !.futures[i].result = LoadTradingDay(loader.files, loader.futures[i].symbol)]
        /\ UNCHANGED <<engineVars, detector, dsm, calc>>

LoaderCollect ==
    \E i \in 1..Len(loader.futures) :
        /\ loader.pc = "COLLECTING"
        /\ loader.futures[i].state = "FINISHED"
        /\ i \notin loader.yielded
        /\ loader' = [loader EXCEPT
              !.yielded = @ \cup {i},
              !.results = CollectResult(@, loader.futures[i].symbol,
                                        loader.futures[i].result)]
        /\ UNCHANGED <<engineVars, detector, dsm, calc>>

LoaderReturn ==
    /\ loader.pc = "COLLECTING"
    /\ loader.yielded = 1..Len(loader.futures)
    /\ loader' = [loader EXCEPT !.pc = "RETURNED"]
    /\ UNCHANGED <<engineVars, detector, dsm, calc>>

NextLoader ==
    \/ LoaderSubmit
    \/ WorkerStart
    \/ WorkerFinish
    \/ LoaderCollect
    \/ LoaderReturn

SpecLoader == InitLoader /\ [][NextLoader]_vars

\* C11 (concurrent load = sequential load): when the concurrent form returns,
\* whatever the order in which the workers finished, its mapping has the keys
\* and the per-symbol data of the sequential form on the same files and list;
\* a symbol that cannot be loaded is a key of neither.
C11_ConcurrentEqualsSequential ==
    loader.pc = "RETURNED" =>
        /\ DictItems(loader.results)
              = DictItems(LoadMultipleSymbolsSequential(loader.files, loader.symbols))
        /\ Cardinality(DictKeys(loader.results)) = Len(loader.results)
        /\ \A s \in Range(loader.symbols) :
              LoadTradingDay(loader.files, s) = None => s \notin DictKeys(loader.results)

\* the futures were collected out of list order, and a listed symbol is missing
C11_Witness ==
    /\ loader.pc = "RETURNED"
    /\ Len(loader.results) >= 2
    /\ loader.results # LoadMultipleSymbolsSequential(loader.files, loader.symbols)
    /\ \E s \in Range(loader.symbols) : s \notin DictKeys(loader.results)

(***************************************************************************)
(* MarketRegimeDetector.  Trend strength, volatility and confidence are    *)
(* integers in units of 0.01, price velocity in units of 0.001.  The three *)
(* indicators are rolling statistics of the price history (a regression    *)
(* slope, a standard deviation of log returns, a mean of relative          *)
(* changes); an update is given the values these statistics take on the    *)
(* window it closes, and the detector keeps the number of prices it holds. *)
(* Spot prices are positive, so the statistics are defined.                *)
(***************************************************************************)
MaxUpdates == 12            \* update_market_data calls in a run
LookbackPeriods == 60       \* lookback_periods: int = 60
MinVelocityPoints == 2      \* if len(self.price_history) < 2
MinVolatilityPoints == 5    \* if len(self.price_history) < 5
MinRegimePoints == 10       \* if len(self.price_history) < 10
HighVolThreshold == 25      \* HIGH_VOL_THRESHOLD = 0.25
LowVolThreshold == 10       \* LOW_VOL_THRESHOLD = 0.10
StrongTrendThreshold == 30  \* STRONG_TREND_THRESHOLD = 0.3
WeakTrendThreshold == 10    \* WEAK_TREND_THRESHOLD = 0.1
HighVelocityThreshold == 2  \* HIGH_VELOCITY_THRESHOLD = 0.002
StabilityBonus == 10        \* confidence + 0.1
TimeBucket == 300           \* (timestamp // 300) * 300
Period == 5                 \* a snapshot every 5 seconds

Min2(a, b) == IF a <= b THEN a ELSE b

NewDetector ==
    [data_points |-> 0, current_regime |-> "UNKNOWN", regime_confidence |-> 0,
     price_velocity |-> 0, trend_strength |-> 0, estimated_volatility |-> 0,
     time_effects |-> <<>>, previous_regime |-> "UNKNOWN", regime_change_count |-> 0]

CalculatePriceVelocity(n, window) == IF n < MinVelocityPoints THEN 0 ELSE window.velocity
CalculateTrendStrength(n, window) == IF n < MinRegimePoints THEN 0 ELSE window.trend
CalculateVolatilityEstimate(n, window) == IF n < MinVolatilityPoints THEN 0 ELSE window.volatility

TrendRegime(d) == IF d.trend_strength > 0 THEN "TRENDING_UP" ELSE "TRENDING_DOWN"

\* the regime and the confidence of the indicators, before the stability bonus
ClassifyIndicators(d) ==
    IF Abs(d.trend_strength) > StrongTrendThreshold
    THEN [regime |-> TrendRegime(d), confidence |-> Min2(90, Abs(d.trend_strength) + 20)]
    ELSE IF d.estimated_volatility > HighVolThreshold
    THEN [regime |-> "HIGH_VOL", confidence |-> Min2(80, 2 * d.estimated_volatility + 30)]
    ELSE IF d.estimated_volatility < LowVolThreshold
    THEN IF Abs(d.trend_strength) > WeakTrendThreshold * 2
         THEN [regime |-> TrendRegime(d), confidence |-> Min2(70, Abs(d.trend_strength) + 20)]
         ELSE [regime |-> "LOW_VOL",
               confidence |-> Min2(80, 5 * (LowVolThreshold - d.estimated_volatility) + 30)]
    ELSE IF 2 * Abs(d.trend_strength) > WeakTrendThreshold * 3
    THEN [regime |-> TrendRegime(d), confidence |-> Min2(80, Abs(d.trend_strength))]
    ELSE IF /\ Abs(d.trend_strength) < WeakTrendThreshold
            /\ Abs(d.price_velocity) < HighVelocityThreshold
    THEN [regime |-> "RANGING",
          confidence |-> Min2(70, 4 * (WeakTrendThreshold - Abs(d.trend_strength)) + 30)]
    ELSE [regime |-> "RANGING", confidence |-> 30]

\* a variant of the classification that never adds the stability bonus
ClassifyMarketRegimeNoBonus(d) ==
    IF d.data_points < MinRegimePoints THEN [regime |-> "UNKNOWN", confidence |-> 0]
    ELSE ClassifyIndicators(d)

ClassifyMarketRegime(d) ==
    IF d.data_points < MinRegimePoints THEN [regime |-> "UNKNOWN", confidence |-> 0]
    ELSE IF ClassifyIndicators(d).regime = d.previous_regime
    THEN [regime |-> ClassifyIndicators(d).regime,
          confidence |-> Min2(100, ClassifyIndicators(d).confidence + StabilityBonus)]
    ELSE ClassifyIndicators(d)

UpdateTimeEffects(time_effects, timestamp) ==
    LET time_bucket == (timestamp \div TimeBucket) * TimeBucket
    IN  IF time_bucket \in DictKeys(time_effects)
        THEN [i \in 1..Len(time_effects) |->
                 IF time_effects[i].key = time_bucket
                 THEN [key |-> time_bucket, value |-> time_effects[i].value + 1]
                 ELSE time_effects[i]]
        ELSE DictSet(time_effects, time_bucket, 1)

\* the indicators are computed, previous_regime takes the regime held so far,
\* and the classification is made with that previous_regime
Classified(d, n, window) ==
    Then([d EXCEPT !.data_points = n,
                   !.price_velocity = CalculatePriceVelocity(n, window),
                   !.trend_strength = CalculateTrendStrength(n, window),
                   !.estimated_volatility = CalculateVolatilityEstimate(n, window),
                   !.previous_regime = d.current_regime],
         LAMBDA e : [e EXCEPT !.current_regime = ClassifyMarketRegime(e).regime,
                              !.regime_confidence = ClassifyMarketRegime(e).confidence])

UpdateMarketData(d, timestamp, window) ==
    IF Min2(d.data_points + 1, LookbackPeriods) < MinVelocityPoints
    THEN [d EXCEPT !.data_points = Min2(d.data_points + 1, LookbackPeriods)]
    ELSE Then(Classified(d, Min2(d.data_points + 1, LookbackPeriods), window),
              LAMBDA e : [e EXCEPT
                  !.regime_change_count =
                      IF /\ e.current_regime # e.previous_regime
                         /\ e.previous_regime # "UNKNOWN"
                      THEN @ + 1 ELSE @,
                  !.time_effects = UpdateTimeEffects(@, timestamp)])

\* a variant of the change test that counts the first classification too
DetectRegimeChangeFromUnknown(d) == d.current_regime # d.previous_regime

DetectRegimeChange(d) ==
    d.current_regime # d.previous_regime /\ d.previous_regime # "UNKNOWN"

Windows ==
    [trend : {-45, 0, 17, 31, 45, 90}, volatility : {5, 15, 30}, velocity : {0, 3}]

(***************************************************************************)
(* Specification SpecDetector: one detector fed MaxUpdates snapshots.      *)
(* calc keeps what the caller saw around the latest update, and the regime *)
(* the caller last read with the number of updates made since.             *)
(***************************************************************************)
InitDetector ==
    /\ InitIdle
    /\ loader = <<>> /\ dsm = <<>>
    /\ detector = NewDetector
    /\ calc = [updates |-> 0, held_before |-> "UNKNOWN", confidence_before |-> 0,
               window |-> [trend |-> 0, volatility |-> 0, velocity |-> 0],
               initial_regime |-> "UNKNOWN", batch |-> 0]

DetectorUpdate ==
    \E window \in Windows :
        /\ calc.updates < MaxUpdates
        /\ detector' = UpdateMarketData(detector, TimeBucket + Period * (calc.updates - 6),
                                        window)
        /\ calc' = [updates |-> calc.updates + 1,
                    held_before |-> detector.current_regime,
                    confidence_before |-> detector.regime_confidence,
                    window |-> window,
                    initial_regime |-> calc.initial_regime,
                    batch |-> calc.batch + 1]
        /\ UNCHANGED <<engineVars, loader, dsm>>

\* the caller reads get_current_regime() and keeps it: a batch of updates starts
DetectorGetCurrentRegime ==
    /\ calc.batch > 0
    /\ calc' = [calc EXCEPT !.initial_regime = detector.current_regime, !.batch = 0]
    /\ UNCHANGED <<engineVars, loader, dsm, detector>>

NextDetector ==
    \/ DetectorUpdate
    \/ DetectorGetCurrentRegime

SpecDetector == InitDetector /\ [][NextDetector]_vars

C13_ConfidenceNotLower ==
    (/\ calc.updates >= 2
     /\ detector.current_regime = calc.held_before
     /\ calc.confidence_before < 100) =>
        detector.regime_confidence >= calc.confidence_before

\* C13 (stability bonus): when an update classifies to the regime held before it,
\* and that regime is not UNKNOWN, its confidence is the confidence its own
\* indicators give plus 0.1, capped at 1.0; with a different regime before it,
\* it is the confidence of the indicators alone.
C13_StabilityBonus ==
    detector.current_regime # "UNKNOWN" =>
        IF detector.current_regime = calc.held_before
        THEN /\ detector.regime_confidence
                   = Min2(100, ClassifyIndicators(detector).confidence + StabilityBonus)
             /\ detector.regime_confidence > ClassifyIndicators(detector).confidence
        ELSE detector.regime_confidence = ClassifyIndicators(detector).confidence

\* the same regime twice, the second time with a lower confidence
C13_Witness ==
    /\ detector.current_regime = calc.held_before
    /\ detector.current_regime = "TRENDING_UP"
    /\ calc.confidence_before < 100
    /\ detector.regime_confidence < calc.confidence_before
    /\ detector.regime_confidence = ClassifyIndicators(detector).confidence + StabilityBonus

(***************************************************************************)
(* Specification SpecLegPnl: _calculate_leg_pnl applied to one leg, and    *)
(* applied again to the same leg with a larger slippage.  Slippage is in   *)
(* price units here (one unit is the default 0.005).                       *)
(***************************************************************************)
MaxSlippage == 3      \* the largest slippage per leg
MaxQuantity == 2      \* the largest number of contracts of a leg

LegActions == {"SELL", "SHORT", "BUY", "LONG"}
LegPrices == {0, 10, 14, 200}
LegLotSizes == {1, LotSize}

LegPnlOf(c, slippage) ==
    CalculateLegPnl(c.entry_price, c.current_price, c.action, c.quantity, c.lot_size, slippage)

InitLegPnl ==
    /\ InitIdle
    /\ loader = <<>> /\ detector = <<>> /\ dsm = <<>>
    /\ \E entry_price \in LegPrices, current_price \in LegPrices, action \in LegActions :
       \E quantity \in 1..MaxQuantity, lot_size \in LegLotSizes, slippage \in 0..MaxSlippage :
          calc = [entry_price |-> entry_price, current_price |-> current_price,
                  action |-> action, quantity |-> quantity, lot_size |-> lot_size,
                  slippage |-> slippage, pnl |-> 0, calls |-> 0,
                  slippage_before |-> slippage, pnl_before |-> 0]

\* the first call, with the slippage the leg was drawn with
LegPnlFirst ==
    /\ calc.calls = 0
    /\ calc' = [calc EXCEPT !.pnl = LegPnlOf(calc, calc.slippage), !.calls = 1]
    /\ UNCHANGED <<engineVars, loader, detector, dsm>>

\* a further call for the same leg with a larger slippage
LegPnlMoreSlippage ==
    \E slippage \in (calc.slippage + 1)..MaxSlippage :
        /\ calc.calls >= 1
        /\ calc' = [calc EXCEPT !.slippage = slippage, !.pnl = LegPnlOf(calc, slippage),
                                !.calls = @ + 1,
                                !.slippage_before = calc.slippage,
                                !.pnl_before = calc.pnl]
        /\ UNCHANGED <<engineVars, loader, detector, dsm>>

NextLegPnl ==
    \/ LegPnlFirst
    \/ LegPnlMoreSlippage

SpecLegPnl == InitLegPnl /\ [][NextLegPnl]_vars

\* C14 (slippage sign): for a leg of fixed entry price, exit price, quantity and
\* lot size, a larger slippage gives a strictly smaller P&L, for a sold leg and
\* for a bought leg alike; each unit of slippage costs 2 * quantity * lot_size.
C14_SlippageDecreasesPnl ==
    calc.calls >= 2 =>
        /\ calc.slippage > calc.slippage_before
        /\ calc.pnl < calc.pnl_before
        /\ calc.pnl_before - calc.pnl
              = 2 * (calc.slippage - calc.slippage_before) * calc.quantity * calc.lot_size

\* a bought leg in profit whose P&L turns negative with the larger slippage
C14_Witness ==
    /\ calc.calls >= 2
    /\ calc.action = "BUY"
    /\ calc.pnl_before > 0
    /\ calc.pnl < 0

(***************************************************************************)
(* DynamicSetupManager.  target_pct and stop_loss_pct are integers in      *)
(* units of 0.1, scalping_price in units of 0.001, confidence in units of  *)
(* 0.01 and the regime multipliers in units of 0.1, so that the products   *)
(* are exact.  A running average is kept as numerator and denominator.     *)
(***************************************************************************)
MaxRegimeUpdates == 2       \* update_market_regime calls in a run
MaxTracked == 2             \* track_adjustment_performance calls in a run
AdjustConfidence == 60      \* if confidence >= 0.6
AccuracyConfidence == 70    \* if self.regime_confidence > 0.7

DictGet(d, k, default) ==
    IF k \in DictKeys(d) THEN d[CHOOSE i \in 1..Len(d) : d[i].key = k].value ELSE default

ManagedSetup(setup_id, target_pct, stop_loss_pct, scalping_price) ==
    [setup_id |-> setup_id, target_pct |-> target_pct, stop_loss_pct |-> stop_loss_pct,
     scalping_price |-> scalping_price]

Multipliers(target, stop_loss, scalping) ==
    [target_pct_multiplier |-> target, stop_loss_pct_multiplier |-> stop_loss,
     scalping_price_multiplier |-> scalping]

RegimeConfigs ==
    [regime \in {"TRENDING_UP", "TRENDING_DOWN", "HIGH_VOL", "LOW_VOL", "RANGING"} |->
        CASE regime = "TRENDING_UP" -> Multipliers(12, 8, 11)
          [] regime = "TRENDING_DOWN" -> Multipliers(12, 8, 11)
          [] regime = "HIGH_VOL" -> Multipliers(15, 13, 13)
          [] regime = "LOW_VOL" -> Multipliers(8, 9, 8)
          [] regime = "RANGING" -> Multipliers(10, 11, 9)]

\* the keys of strategy_regime_compatibility, in the order of the dict literal
StrategyTypes ==
    <<"straddle", "hedged_straddle", "ce_scalping", "pe_scalping", "iron_condor",
      "butterfly", "vertical_spread", "ratio_spread">>

\* the regimes a strategy type is compatible with
StrategyRegimeCompatibility(strategy_type) ==
    CASE strategy_type = "straddle" -> {"RANGING", "LOW_VOL"}
      [] strategy_type = "hedged_straddle" -> {"RANGING", "LOW_VOL", "HIGH_VOL"}
      [] strategy_type = "ce_scalping" -> {"TRENDING_UP", "HIGH_VOL"}
      [] strategy_type = "pe_scalping" -> {"TRENDING_DOWN", "HIGH_VOL"}
      [] strategy_type = "iron_condor" -> {"RANGING", "LOW_VOL"}
      [] strategy_type = "butterfly" -> {"LOW_VOL", "RANGING"}
      [] strategy_type = "vertical_spread" -> {"TRENDING_UP", "TRENDING_DOWN"}
      [] strategy_type = "ratio_spread" -> {"RANGING", "LOW_VOL"}
      [] OTHER -> {}

\* key in setup_id.lower(): the table keys that occur in a setup id of the model
KeysIn(setup_id) ==
    CASE setup_id \in {"straddle_0", "straddle"} -> {"straddle"}
      [] setup_id = "hedged_straddle_0" -> {"straddle", "hedged_straddle"}
      [] setup_id = "ce_scalping_0" -> {"ce_scalping"}
      [] setup_id = "Iron_Condor_A" -> {"iron_condor"}
      [] OTHER -> {}

\* the first key of the compatibility table that occurs in the setup id; "" if none
StrategyTypeOf(setup_id) ==
    LET found == {i \in 1..Len(StrategyTypes) : StrategyTypes[i] \in KeysIn(setup_id)}
    IN  IF found = {} THEN ""
        ELSE StrategyTypes[CHOOSE i \in found : \A j \in found : i <= j]

ShouldPauseStrategyForRegime(setup_id, regime) ==
    IF StrategyTypeOf(setup_id) # ""
    THEN regime \notin StrategyRegimeCompatibility(StrategyTypeOf(setup_id))
    ELSE FALSE

AdjustParametersForRegime(setup, regime) ==
    IF regime \in DOMAIN RegimeConfigs
    THEN [setup EXCEPT
            !.target_pct = (@ * RegimeConfigs[regime].target_pct_multiplier) \div 10,
            !.stop_loss_pct = (@ * RegimeConfigs[regime].stop_loss_pct_multiplier) \div 10,
            !.scalping_price = (@ * RegimeConfigs[regime].scalping_price_multiplier) \div 10]
    ELSE setup

ParameterAdjustment(timestamp, setup_id, parameter_name, old_value, new_value, regime) ==
    [timestamp |-> timestamp, setup_id |-> setup_id, parameter_name |-> parameter_name,
     old_value |-> old_value, new_value |-> new_value, reason |-> <<"regime_change_to", regime>>]

\* the entries _track_parameter_changes appends, in the order of its three tests
ParameterChanges(old_setup, new_setup, regime, timestamp) ==
    LET Entry(name) == IF old_setup[name] # new_setup[name]
                       THEN <<ParameterAdjustment(timestamp, new_setup.setup_id, name,
                                                  old_setup[name], new_setup[name], regime)>>
                       ELSE <<>>
    IN  Entry("target_pct") \o Entry("stop_loss_pct") \o Entry("scalping_price")

NewDynamicSetupManager(base_setups) ==
    [base_setups |-> base_setups, adjusted_setups |-> base_setups,
     current_regime |-> "UNKNOWN", regime_confidence |-> 0, last_regime_change_time |-> 0,
     adjustment_performance |-> <<>>, static_performance |-> <<>>,
     dynamic_performance |-> <<>>, adjustment_history |-> <<>>,
     paused_strategies |-> {}, total_adjustments |-> 0, regime_accuracy_history |-> <<>>]

\* a variant of the adjustment that starts from the setup as adjusted so far
RECURSIVE AdjustSetupsForRegimeCompounding(_, _, _, _)
AdjustSetupsForRegimeCompounding(m, regime, timestamp, i) ==
    IF regime \notin DOMAIN RegimeConfigs \/ i > Len(m.base_setups) THEN m
    ELSE IF ShouldPauseStrategyForRegime(m.base_setups[i].setup_id, regime)
    THEN AdjustSetupsForRegimeCompounding(
            [m EXCEPT !.paused_strategies = @ \cup {m.base_setups[i].setup_id}],
            regime, timestamp, i + 1)
    ELSE Then(ParameterChanges(m.adjusted_setups[i],
                               AdjustParametersForRegime(m.adjusted_setups[i], regime),
                               regime, timestamp),
              LAMBDA changes : AdjustSetupsForRegimeCompounding(
                 [m EXCEPT !.paused_strategies = @ \ {m.base_setups[i].setup_id},
                           !.adjusted_setups[i] =
                               AdjustParametersForRegime(m.adjusted_setups[i], regime),
                           !.adjustment_history = @ \o changes,
                           !.total_adjustments = @ + Len(changes)],
                 regime, timestamp, i + 1))

RECURSIVE AdjustSetupsForRegime(_, _, _, _)
AdjustSetupsForRegime(m, regime, timestamp, i) ==
    IF regime \notin DOMAIN RegimeConfigs \/ i > Len(m.base_setups) THEN m
    ELSE IF ShouldPauseStrategyForRegime(m.base_setups[i].setup_id, regime)
    THEN AdjustSetupsForRegime(
            [m EXCEPT !.paused_strategies = @ \cup {m.base_setups[i].setup_id}],
            regime, timestamp, i + 1)
    ELSE Then(ParameterChanges(m.adjusted_setups[i],
                               AdjustParametersForRegime(m.base_setups[i], regime),
                               regime, timestamp),
              LAMBDA changes : AdjustSetupsForRegime(
                 [m EXCEPT !.paused_strategies = @ \ {m.base_setups[i].setup_id},
                           !.adjusted_setups[i] =
                               AdjustParametersForRegime(m.base_setups[i], regime),
                           !.adjustment_history = @ \o changes,
                           !.total_adjustments = @ + Len(changes)],
                 regime, timestamp, i + 1))

UpdateMarketRegime(m, regime, confidence, timestamp) ==
    LET regime_changed == regime # m.current_regime /\ m.current_regime # "UNKNOWN"
        noted == [m EXCEPT
                    !.last_regime_change_time = IF regime_changed THEN timestamp ELSE @,
                    !.regime_accuracy_history =
                        IF regime_changed /\ m.regime_confidence > AccuracyConfidence
                        THEN Append(@, TRUE) ELSE @,
                    !.current_regime = regime,
                    !.regime_confidence = confidence]
    IN  IF confidence >= AdjustConfidence
        THEN AdjustSetupsForRegime(noted, regime, timestamp, 1)
        ELSE noted

\* the running average (current_avg * (count - 1) + pnl) / count
RunningAverage(current_avg, count, pnl) ==
    IF count > 0
    THEN [num |-> current_avg.num * (count - 1) + pnl * current_avg.den,
          den |-> current_avg.den * count]
    ELSE current_avg

TrackAdjustmentPerformance(m, trade, was_adjusted) ==
    LET field == IF was_adjusted THEN "dynamic_performance" ELSE "static_performance"
        listed == [m EXCEPT ![field] =
                      DictSet(@, trade.setup_id, Append(DictGet(@, trade.setup_id, <<>>),
                                                        trade.pnl))]
        adjustment_type == <<m.current_regime, trade.setup_id>>
        current_avg == DictGet(m.adjustment_performance, adjustment_type,
                               [num |-> 0, den |-> 1])
        count == Len(DictGet(listed.dynamic_performance, trade.setup_id, <<>>))
    IN  [listed EXCEPT !.adjustment_performance =
            DictSet(@, adjustment_type, RunningAverage(current_avg, count, trade.pnl))]

\* a variant of the daily reset that also forgets the performance histories
ResetDailyAdjustmentsAll(m) == NewDynamicSetupManager(m.base_setups)

ResetDailyAdjustments(m) ==
    [m EXCEPT !.adjustment_history = <<>>,
              !.paused_strategies = {},
              !.adjusted_setups = m.base_setups]

BaseSetups ==
    <<ManagedSetup("straddle_0", 500, 1000, 400),
      ManagedSetup("ce_scalping_0", 300, 500, 400),
      ManagedSetup("custom_0", 200, 200, 400)>>

ManagerRegimes == {"UNKNOWN", "TRENDING_UP", "HIGH_VOL", "LOW_VOL"}
ManagerConfidences == {50, 80}
TrackedTrades == {[setup_id |-> "straddle_0", pnl |-> 300], [setup_id |-> "custom_0", pnl |-> -100]}

(***************************************************************************)
(* Specification SpecManager: a DynamicSetupManager over three base setups *)
(* driven by regime updates, tracked trades and daily resets in any order. *)
(* calc keeps the manager as it was before the last call, the regime of    *)
(* the last call since the reset that was confident and configured, and    *)
(* the P&L of the trades tracked so far for each (regime, setup id) pair.  *)
(***************************************************************************)
InitManager ==
    /\ InitIdle
    /\ loader = <<>> /\ detector = <<>>
    /\ dsm = NewDynamicSetupManager(BaseSetups)
    /\ calc = [op |-> "__init__", updates |-> 0, tracked |-> 0,
               before |-> NewDynamicSetupManager(BaseSetups), applied |-> "",
               pnls |-> <<>>]

ManagerUpdateRegime ==
    \E regime \in ManagerRegimes, confidence \in ManagerConfidences :
        /\ calc.updates < MaxRegimeUpdates
        /\ dsm' = UpdateMarketRegime(dsm, regime, confidence, calc.updates + 1)
        /\ calc' = [calc EXCEPT !.op = "update_market_regime", !.updates = @ + 1,
                                !.before = dsm,
                                !.applied = IF /\ confidence >= AdjustConfidence
                                               /\ regime \in DOMAIN RegimeConfigs
                                            THEN regime ELSE @]
        /\ UNCHANGED <<engineVars, loader, detector>>

ManagerTrack ==
    \E trade \in TrackedTrades, was_adjusted \in BOOLEAN :
        /\ calc.tracked < MaxTracked
        /\ dsm' = TrackAdjustmentPerformance(dsm, trade, was_adjusted)
        /\ calc' = [calc EXCEPT !.op = "track_adjustment_performance", !.tracked = @ + 1,
                                !.before = dsm,
                                !.pnls = DictSet(@, <<dsm.current_regime, trade.setup_id>>,
                                            Append(DictGet(@, <<dsm.current_regime,
                                                                trade.setup_id>>, <<>>),
                                                   trade.pnl))]
        /\ UNCHANGED <<engineVars, loader, detector>>

ManagerReset ==
    /\ dsm' = ResetDailyAdjustments(dsm)
    /\ calc' = [calc EXCEPT !.op = "reset_daily_adjustments", !.before = dsm,
                            !.applied = ""]
    /\ UNCHANGED <<engineVars, loader, detector>>

NextManager ==
    \/ ManagerUpdateRegime
    \/ ManagerTrack
    \/ ManagerReset

SpecManager == InitManager /\ [][NextManager]_vars

\* C15 (daily reset of the adjustments): right after reset_daily_adjustments()
\* the adjustment log and the paused set are empty, every adjusted setup has the
\* parameters of its base setup, and the dynamic and static performance
\* histories are what they were before the call.
C15_ResetDailyAdjustments ==
    calc.op = "reset_daily_adjustments" =>
        /\ dsm.adjustment_history = <<>>
        /\ dsm.paused_strategies = {}
        /\ Len(dsm.adjusted_setups) = Len(dsm.base_setups)
        /\ \A i \in 1..Len(dsm.base_setups) : dsm.adjusted_setups[i] = dsm.base_setups[i]
        /\ dsm.dynamic_performance = calc.before.dynamic_performance
        /\ dsm.static_performance = calc.before.static_performance
        /\ dsm.base_setups = calc.before.base_setups

\* a reset of a manager with logged adjustments, a paused strategy, adjusted
\* parameters and both kinds of performance history
C15_Witness ==
    /\ calc.op = "reset_daily_adjustments"
    /\ calc.before.adjustment_history # <<>>
    /\ calc.before.paused_strategies # {}
    /\ calc.before.adjusted_setups # calc.before.base_setups
    /\ dsm.dynamic_performance # <<>>
    /\ dsm.static_performance # <<>>

(***************************************************************************)
(* BacktestEngine._calculate_max_drawdown over the trades of a backtest.   *)
(***************************************************************************)
MaxTrades == 4        \* the longest list of trades

\* the cumulative P&L after the first k trades
CumulativePnl(all_trades, k) == SumSeq([i \in 1..k |-> all_trades[i].pnl])

\* a variant of the loop whose peak starts at the cumulative P&L of the first trade
RECURSIVE DrawdownLoopFromFirst(_, _, _, _, _)
DrawdownLoopFromFirst(all_trades, i, cumulative_pnl, peak, max_drawdown) ==
    IF i > Len(all_trades) THEN max_drawdown
    ELSE \* peak and drawdown after trade i
         LET c == cumulative_pnl + all_trades[i].pnl
             p == IF i = 1 \/ c > peak THEN c ELSE peak
         IN  DrawdownLoopFromFirst(all_trades, i + 1, c, p,
                                   IF p - c > max_drawdown THEN p - c ELSE max_drawdown)

RECURSIVE DrawdownLoop(_, _, _, _, _)
DrawdownLoop(all_trades, i, cumulative_pnl, peak, max_drawdown) ==
    IF i > Len(all_trades) THEN max_drawdown
    ELSE LET c == cumulative_pnl + all_trades[i].pnl
             p == IF c > peak THEN c ELSE peak
         IN  DrawdownLoop(all_trades, i + 1, c, p,
                          IF p - c > max_drawdown THEN p - c ELSE max_drawdown)

CalculateMaxDrawdownFromFirst(all_trades) ==
    IF all_trades = <<>> THEN 0 ELSE DrawdownLoopFromFirst(all_trades, 1, 0, 0, 0)

CalculateMaxDrawdown(all_trades) ==
    IF all_trades = <<>> THEN 0 ELSE DrawdownLoop(all_trades, 1, 0, 0, 0)

TradePnls == {-300, -100, 0, 100, 300}

(***************************************************************************)
(* Specification SpecDrawdown: trades are appended to all_trades one at a  *)
(* time and the drawdown of the list is calculated at any point.           *)
(***************************************************************************)
InitDrawdown ==
    /\ InitIdle
    /\ loader = <<>> /\ detector = <<>> /\ dsm = <<>>
    /\ calc = [all_trades |-> <<>>, calculated |-> FALSE, max_drawdown |-> 0]

DrawdownAddTrade ==
    \E pnl \in TradePnls :
        /\ Len(calc.all_trades) < MaxTrades
        /\ calc' = [calc EXCEPT !.all_trades = Append(@, [pnl |-> pnl]),
                                !.calculated = FALSE]
        /\ UNCHANGED <<engineVars, loader, detector, dsm>>

DrawdownCalculate ==
    /\ ~calc.calculated
    /\ calc' = [calc EXCEPT !.calculated = TRUE,
                            !.max_drawdown = CalculateMaxDrawdown(calc.all_trades)]
    /\ UNCHANGED <<engineVars, loader, detector, dsm>>

NextDrawdown ==
    \/ DrawdownAddTrade
    \/ DrawdownCalculate

SpecDrawdown == InitDrawdown /\ [][NextDrawdown]_vars

\* the cumulative P&L after each trade never falls from one trade to the next
CurveNonDecreasing(all_trades) ==
    \A k \in 1..(Len(all_trades) - 1) :
        CumulativePnl(all_trades, k) <= CumulativePnl(all_trades, k + 1)

RiskPnls == {-50 * LotSize, -10 * LotSize, -8 * LotSize, 0, 5 * LotSize}
RiskLimits == DayLimits \cup {20 * LotSize}

UpdateDailyPnl(rm, pnl) == [rm EXCEPT !.daily_pnl = pnl]

ResetDailyTracking(rm) == [rm EXCEPT !.daily_pnl = 0]

GetRemainingRiskCapacity(rm) ==
    IF rm.daily_max_loss + rm.daily_pnl > 0 THEN rm.daily_max_loss + rm.daily_pnl ELSE 0

RiskCall(rm, op, arg, result) ==
    [rm |-> rm, op |-> op, arg |-> arg, result |-> result, raised |-> FALSE,
     reset_called |-> (op = "reset_daily_tracking") \/ calc.reset_called,
     reset_before |-> calc.reset_called]

InitRisk ==
    /\ InitIdle
    /\ loader = <<>> /\ detector = <<>> /\ dsm = <<>>
    /\ \E daily_max_loss \in RiskLimits :
          calc = [rm |-> NewRiskManager(daily_max_loss), op |-> "__init__",
                  arg |-> daily_max_loss, result |-> 0, raised |-> FALSE, reset_called |-> FALSE,
                  reset_before |-> FALSE]

RiskShouldClose ==
    \E total_pnl \in RiskPnls :
        /\ calc' = RiskCall(calc.rm, "should_close_all_positions", total_pnl,
                            ShouldCloseAllPositions(calc.rm, total_pnl))
        /\ UNCHANGED <<engineVars, loader, detector, dsm>>

RiskUpdateDailyPnl ==
    \E pnl \in RiskPnls :
        /\ calc' = RiskCall(UpdateDailyPnl(calc.rm, pnl), "update_daily_pnl", pnl, 0)
        /\ UNCHANGED <<engineVars, loader, detector, dsm>>

RiskRemainingCapacity ==
    /\ calc' = RiskCall(calc.rm, "get_remaining_risk_capacity", 0,
                        GetRemainingRiskCapacity(calc.rm))
    /\ UNCHANGED <<engineVars, loader, detector, dsm>>

RiskReset ==
    /\ calc' = RiskCall(ResetDailyTracking(calc.rm), "reset_daily_tracking", 0, 0)
    /\ UNCHANGED <<engineVars, loader, detector, dsm>>

\* the next trading day begins: nothing is called
RiskNextDay ==
    /\ calc.op # "next day"
    /\ calc' = [calc EXCEPT !.op = "next day", !.arg = 0, !.result = 0, !.reset_called = FALSE,
                            !.reset_before = FALSE]
    /\ UNCHANGED <<engineVars, loader, detector, dsm>>

NextRisk ==
    \/ RiskShouldClose
    \/ RiskUpdateDailyPnl
    \/ RiskRemainingCapacity
    \/ RiskReset
    \/ RiskNextDay

SpecRisk == InitRisk /\ [][NextRisk]_vars

\* C17 as claimed: a call that uses the RiskManager on a day on which
\* reset_daily_tracking() has not been called yet fails.
C17_UseBeforeResetFails ==
    (/\ calc.op \in {"should_close_all_positions", "update_daily_pnl",
                     "get_remaining_risk_capacity"}
     /\ ~calc.reset_before) => calc.raised

\* C18 as claimed: when the processing of a trading day has finished, by a risk
\* halt, at the job end or with the timestamps used up, the PositionManager holds
\* no open position.
C18_NoOpenPositionAtDayEnd ==
    pc \in {"RISK_HALT", "JOB_END", "EXHAUSTED"} => pm.positions = <<>>

\* C19 as claimed: the pnl of every Trade update_positions returns equals the
\* current_pnl the same call computed for the position from the snapshot, also
\* when a leg of the position has no price in the snapshot.
C19_TradePnlIsCurrentPnl ==
    call.op = "update_positions" =>
        \A k \in 1..Len(ret) : \A i \in 1..Len(pre.positions) :
            pre.positions[i].id = ret[k].pid =>
                ret[k].pnl = CalculatePositionPnl(pre.positions[i], md)

\* no leg of the position has a parsable key and a price in any snapshot
Unpriceable(p) ==
    \A j \in 1..Len(p.entry_prices) : \A m \in MdInputs :
        LET d == ParseOptionKey(p.entry_prices[j].key, p)
        IN  ~d.ok \/ ~HasPrice(m, d.option_type, d.strike)

\* the Trades of the last call for the position with the given key
TradesOf(id) == {k \in 1..Len(ret) : ret[k].pid = id}

\* C20 (unpriceable positions): update_positions never raises on a position none
\* of whose legs can be priced; it marks the position at 0, never closes it for
\* a profit/loss reason, leaves it open while the timestamp is below its
\* force_close_timeindex and closes it with TIME_BASED at the first update whose
\* timestamp is at or past it.
C20_UnpriceableClosedByTime ==
    call.op = "update_positions" =>
        /\ ~raised
        /\ \A i \in 1..Len(pre.positions) :
              Unpriceable(pre.positions[i]) =>
                 /\ CalculatePositionPnl(pre.positions[i], md) = 0
                 /\ \A k \in TradesOf(pre.positions[i].id) :
                       ret[k].exit_reason = "TIME_BASED"
                 /\ md.timestamp >= pre.positions[i].force_close_timeindex
                       <=> TradesOf(pre.positions[i].id) # {}
                 /\ md.timestamp < pre.positions[i].force_close_timeindex
                       <=> pre.positions[i].id \in OpenIds(pm)

\* an update at the close time of two unpriceable positions opened earlier, one
\* with a malformed key and one at unquoted strikes
C20_Witness ==
    /\ call.op = "update_positions"
    /\ \E i, j \in 1..Len(pre.positions) :
          /\ pre.positions[i].setup_id = "orphan"
          /\ pre.positions[j].setup_id = "unquoted"
          /\ pre.positions[i].entry_timeindex < md.timestamp
          /\ TradesOf(pre.positions[i].id) # {}
          /\ TradesOf(pre.positions[j].id) # {}
    /\ \A k \in 1..Len(ret) : ret[k].exit_reason = "TIME_BASED"

(***************************************************************************)
(* Gamma-scalping rebalancing (SpecPM).                                    *)
(***************************************************************************)
\* the open position j after the call replaces the position i open before it
Replaces(j, i) ==
    /\ pm.positions[j].setup_id = pre.positions[i].setup_id
    /\ pm.positions[j].position_type = "GAMMA_SCALP_REBALANCED"
    /\ pm.positions[j].strikes = pre.positions[i].strikes
    /\ pm.positions[j].entry_timeindex = md.timestamp
    /\ pm.positions[j].rebalance_count = pre.positions[i].rebalance_count + 1

\* the positions update_gamma_scalping_positions closed with reason REBALANCE
Rebalanced ==
    {i \in 1..Len(pre.positions) :
        \E k \in 1..Len(ret) : /\ ret[k].pid = pre.positions[i].id
                               /\ ret[k].exit_reason = "REBALANCE"}

\* the positions that entered the open set during the call
Replacements == {j \in 1..Len(pm.positions) : pm.positions[j].id \notin OpenIds(pre)}

\* C21 (rebalance closes and reopens): after update_gamma_scalping_positions, every
\* position whose rebalance fired has left the open set with a Trade of reason
\* REBALANCE, and the positions that entered the open set are its replacements,
\* each with rebalance_count equal to the closed position's rebalance_count + 1.
C21_RebalanceReopens ==
    call.op = "update_gamma_scalping_positions" =>
        /\ \A i \in Rebalanced :
              /\ pre.positions[i].id \notin OpenIds(pm)
              /\ pre.positions[i].position_type \in GammaTypes
              /\ \E j \in Replacements : Replaces(j, i)
        /\ \A j \in Replacements : \E i \in Rebalanced : Replaces(j, i)
        /\ Cardinality(Replacements) = Cardinality(Rebalanced)

C21_Witness ==
    /\ call.op = "update_gamma_scalping_positions"
    /\ Rebalanced # {}
    /\ \E j \in Replacements : pm.positions[j].rebalance_count = 1
    /\ Len(pm.positions) >= 2

(***************************************************************************)
(* BacktestEngine with enable_dynamic_management on (backtest_engine.py):  *)
(* the current setups are the DynamicSetupManager's adjusted setups that   *)
(* are not paused, and every tick first feeds the regime detector and the  *)
(* setup manager.                                                          *)
(***************************************************************************)
MaxDynTicks == 12    \* the days of a run of SpecDyn have MaxDynTicks timestamps in all
MaxDays == 2         \* trading days processed by one engine

\* a strategy with the scalping_price attribute of TradingSetup
WithScalpingPrice(setup, scalping_price) ==
    [f \in DOMAIN setup \cup {"scalping_price"} |->
        IF f = "scalping_price" THEN scalping_price ELSE setup[f]]

\* the positions in adjusted_setups of the setups that are not paused
ActiveSetups(m) ==
    {i \in 1..Len(m.adjusted_setups) :
        m.adjusted_setups[i].setup_id \notin m.paused_strategies}

\* get_adjusted_setups
GetAdjustedSetups(m) == SelectIdx(m.adjusted_setups, ActiveSetups(m), 1)

\* the setups get_adjusted_setups returned are the objects of adjusted_setups:
\* what the tick did to them is seen in the manager
StoreAdjustedSetups(m, current_setups) ==
    [m EXCEPT !.adjusted_setups =
        [i \in 1..Len(@) |->
            IF i \in ActiveSetups(m)
            THEN current_setups[Cardinality({j \in ActiveSetups(m) : j <= i})]
            ELSE @[i]]]

\* _was_trade_adjusted with enable_multi_symbol off
WasTradeAdjusted(m, trade) ==
    \E i \in 1..Len(m.adjustment_history) :
        /\ m.adjustment_history[i].setup_id = trade.setup_id
        /\ m.adjustment_history[i].timestamp <= trade.entry_timeindex

RECURSIVE TrackTrades(_, _)
\* for trade in trades: track_adjustment_performance(trade, _was_trade_adjusted(trade))
TrackTrades(m, trades) ==
    IF trades = <<>> THEN m
    ELSE TrackTrades(TrackAdjustmentPerformance(m, Head(trades),
                                                WasTradeAdjusted(m, Head(trades))),
                     Tail(trades))

\* process_time_interval with dynamic management: the Trades of update_positions
\* and of check_time_based_closures are tracked, those of the rebalancing are not
ProcessTimeIntervalDynamic(m, manager, market_data) ==
    Then(GetAdjustedSetups(manager), LAMBDA current_setups :
    Then(AddAll(m, NewPositions(current_setups, 1, market_data)), LAMBDA entered :
    Then(UpdatePositions(entered, market_data), LAMBDA r1 :
    Then(UpdateGammaScalpingPositions(r1.pm, market_data, current_setups), LAMBDA r2 :
    Then(TrackTrades(StoreAdjustedSetups(manager, r2.setups), r1.trades), LAMBDA d1 :
    Then(CheckTimeBasedClosures(r2.pm, market_data.timestamp, r2.setups), LAMBDA r3 :
        [pm |-> r3.pm,
         dsm |-> IF r3.raised THEN d1 ELSE TrackTrades(d1, r3.trades),
         trades |-> r1.trades \o r2.trades \o r3.trades, raised |-> r3.raised]))))))

\* the resets at the start of process_trading_day: reset_positions,
\* reset_daily_tracking, reset_daily_adjustments and reset_daily_state of the
\* current setups; the regime detector has no reset
ResetForNewDay(manager) ==
    Then(ResetDailyAdjustments(manager), LAMBDA r :
        [r EXCEPT !.adjusted_setups =
            [i \in 1..Len(@) |-> IF i \in ActiveSetups(r) THEN ResetDailyState(@[i])
                                 ELSE @[i]]])

(***************************************************************************)
(* Specification SpecDyn: process_trading_day with dynamic management, for *)
(* up to MaxDays days of one engine, each with the timestamps 1, 2, ... of *)
(* its data.  The setups enter at the timestamp of the detector's first    *)
(* classification.  An action is one iteration of the loop over the sorted *)
(* timestamps, the end of that loop, or the start of the next day.         *)
(***************************************************************************)
\* a gamma-scalping setup (max_rebalances 1) and a straddle
DynSetups ==
    << WithScalpingPrice(Setup("GAMMA", "gamma", 30 * LotSize, 50 * LotSize,
                               MinRegimePoints, PriorityWindow + 2), 80),
       WithScalpingPrice(Setup("STRADDLE", "straddle", 30 * LotSize, 50 * LotSize,
                               MinRegimePoints, PriorityWindow + 2), 80) >>

\* flat, and a rally
DynChains == { Chain(100, 10, 10), Chain(101, 14, 10) }

\* a strong trend (TRENDING_UP at 0.65) and a calm market (LOW_VOL at 0.55, at
\* 0.65 when it lasts)
DynWindows ==
    { [trend |-> 45, volatility |-> 15, velocity |-> 3],
      [trend |-> 0, volatility |-> 5, velocity |-> 0] }

InitSpecDyn ==
    /\ InitRun
    /\ setups = DynSetups
    /\ job_end_idx \in {MaxDynTicks, MaxDynTicks + 1}
    /\ risk = [f \in {"daily_max_loss", "daily_pnl", "cross_symbol_risk_limit"} |->
                  IF f = "cross_symbol_risk_limit" THEN 0
                  ELSE NewRiskManager(50 * LotSize)[f]]
    /\ atCheck = NewPositionManager
    /\ InitMulti
    /\ loader = <<>>
    /\ detector = NewDetector
    /\ dsm = NewDynamicSetupManager(DynSetups)
    /\ calc = [day |-> 1, ticks |-> 0]

\* an iteration for a timestamp that has option and spot data
DynStep ==
    /\ pc = "RUNNING"
    /\ calc.ticks < MaxDynTicks
    /\ calc' = [calc EXCEPT !.ticks = @ + 1]
    /\ \E c \in DynChains, window \in DynWindows :
       \E market_data \in {MarketData(now + 1, DaySymbol, c.spot_price, c.option_prices)} :
       \E seen \in {UpdateMarketData(detector, now + 1, window)} :
       \E managed \in {UpdateMarketRegime(dsm, seen.current_regime,
                                          seen.regime_confidence, now + 1)} :
       \E step \in {ProcessTimeIntervalDynamic(pm, managed, market_data)} :
          LET t == now + 1
              breach == CheckDailyRiskLimits(step.pm, risk)
              job_end == ReachedJobEnd(t, job_end_idx)
              emergency == CloseAllPositions(step.pm, market_data, "DAILY_LIMIT")
              forced == ForceCloseAtJobEnd(step.pm, market_data)
          IN  /\ now' = t
              /\ md' = market_data
              /\ detector' = seen
              /\ dsm' = step.dsm
              /\ IF step.raised
                 THEN /\ pc' = "CRASHED"
                      /\ pm' = step.pm
                      /\ UNCHANGED <<processed, daily_trades, atCheck>>
                 ELSE /\ atCheck' = step.pm
                      /\ processed' = Append(processed,
                              [timestamp |-> t, total_pnl |-> GetTotalPnl(step.pm)])
                      /\ pc' = IF breach THEN "RISK_HALT"
                               ELSE IF job_end THEN "JOB_END" ELSE "RUNNING"
                      /\ pm' = IF breach THEN emergency.pm
                               ELSE IF job_end THEN forced.pm ELSE step.pm
                      /\ daily_trades' = daily_trades \o step.trades \o
                              (IF breach THEN emergency.trades
                               ELSE IF job_end THEN forced.trades ELSE <<>>)
    /\ UNCHANGED <<setups, call, pre, ret, raised, added, closed, job_end_idx, risk,
                   multiVars, loader>>

\* the loop runs out of timestamps: the day's data ends after any timestamp
DynExhausted ==
    /\ pc = "RUNNING"
    /\ pc' = "EXHAUSTED"
    /\ UNCHANGED <<pmVars, now, processed, job_end_idx, risk, daily_trades, atCheck,
                   multiVars, unitVars>>

\* process_trading_day is called for the next date: the resets
DynNextDay ==
    /\ pc \in {"RISK_HALT", "JOB_END", "EXHAUSTED"}
    /\ calc.day < MaxDays
    /\ calc' = [calc EXCEPT !.day = @ + 1]
    /\ pm' = ResetPositions(pm)
    /\ risk' = [risk EXCEPT !.daily_pnl = ResetDailyTracking(risk).daily_pnl]
    /\ dsm' = ResetForNewDay(dsm)
    /\ pc' = "RUNNING"
    /\ now' = 0
    /\ processed' = <<>>
    /\ daily_trades' = <<>>
    /\ UNCHANGED <<setups, call, md, pre, ret, raised, added, closed, job_end_idx,
                   atCheck, multiVars, loader, detector>>

NextDyn ==
    \/ DynStep
    \/ DynExhausted
    \/ DynNextDay

SpecDyn == InitSpecDyn /\ [][NextDyn]_vars

\* the REBALANCE closures of the day made for a setup
RebalanceClosures(setup_id) ==
    {k \in 1..Len(daily_trades) : /\ daily_trades[k].setup_id = setup_id
                                  /\ daily_trades[k].exit_reason = "REBALANCE"}

\* C22 (rebalances per day): within one trading day with dynamic management, the
\* number of REBALANCE closures made for a gamma-scalping strategy never exceeds
\* that strategy's max_rebalances.
C22_RebalancesWithinMax ==
    \A i \in 1..Len(setups) :
        setups[i].kind = "GAMMA" =>
            Cardinality(RebalanceClosures(setups[i].setup_id)) <= setups[i].max_rebalances

\* symbol_pnls[symbol]: the sum of the P&L of the day's Trades that carry the symbol
SymbolPnl(symbol) ==
    SumSeq([k \in 1..Len(daily_trades) |->
               IF daily_trades[k].symbol = symbol THEN daily_trades[k].pnl ELSE 0])

\* C23 (Trades carry their symbol): in multi-symbol mode every Trade of the day
\* carries the symbol of the PositionManager that held its position, whatever
\* its exit reason, and the per-symbol P&Ls of the day sum to its daily P&L.
C23_TradesCarrySymbol ==
    /\ \A k \in 1..Len(daily_trades) : daily_trades[k].symbol = daily_trades[k].owner
    /\ SumSeq([i \in 1..Len(Symbols) |-> SymbolPnl(Symbols[i])])
          = SumSeq([k \in 1..Len(daily_trades) |-> daily_trades[k].pnl])

(***************************************************************************)
(* Specification SpecOrder: one multi-symbol trading day processed twice   *)
(* from the same data, once for each of two orders in which the concurrent *)
(* loads may have completed (the order of the items of symbol_data).  calc *)
(* holds the second run.  An action is one iteration of the loop over the  *)
(* sorted timestamps, made by both runs on the same market data.           *)
(***************************************************************************)
\* one iteration of the loop of _process_multi_symbol_trading_day for a run
\* r = [pc, spm, setups, daily_trades] whose symbol_data has the given order
MultiTick(r, order, job_ends, cross_limit, data, t) ==
    IF r.pc # "RUNNING" THEN r
    ELSE
    Then(ProcessSymbols(order, 1, data,
                        [spm |-> r.spm, setups |-> r.setups, trades |-> <<>>,
                         raised |-> FALSE]), LAMBDA step :
      LET breach == CheckCrossSymbolRiskLimits(step.spm, cross_limit)
          unwound == CrossSymbolUnwind(Symbols, 1, data,
                                       [spm |-> step.spm, trades |-> <<>>])
          job_end == \E s \in Range(order) : ReachedJobEnd(t, job_ends[s])
          forced == JobEndClose(order, 1, t, data,
                                [spm |-> step.spm, trades |-> <<>>,
                                 job_end_idx |-> job_ends])
      IN  IF step.raised
          THEN [r EXCEPT !.pc = "CRASHED", !.spm = step.spm, !.setups = step.setups]
          ELSE [pc |-> IF breach THEN "CROSS_HALT"
                       ELSE IF job_end THEN "JOB_END" ELSE "RUNNING",
                spm |-> IF breach THEN unwound.spm
                        ELSE IF job_end THEN forced.spm ELSE step.spm,
                setups |-> step.setups,
                daily_trades |-> r.daily_trades \o step.trades \o
                     (IF breach THEN unwound.trades
                      ELSE IF job_end THEN forced.trades ELSE <<>>)])

InitSpecOrder ==
    /\ InitRun
    /\ loader = <<>> /\ detector = <<>> /\ dsm = <<>>
    /\ setups = MultiSetups
    /\ job_end_idx = 0
    /\ \E cross \in {20 * LotSize, 100 * LotSize} :
          /\ risk = [f \in {"daily_max_loss", "daily_pnl", "cross_symbol_risk_limit"} |->
                       IF f = "cross_symbol_risk_limit" THEN cross
                       ELSE NewRiskManager(50 * LotSize)[f]]
          /\ srm = [s \in Range(Symbols) |-> NewRiskManager(50 * LotSize)]
    /\ spm = [s \in Range(Symbols) |-> NewPositionManager]
    /\ atCheck = [s \in Range(Symbols) |-> NewPositionManager]
    /\ \E order \in LoadOrders :
       \E ends \in [Range(Symbols) -> {MaxTicks - 1, MaxTicks + 1}] :
          symbol_data = [order |-> order, job_end_idx |-> ends]
    /\ \E other \in LoadOrders :
          calc = [order |-> other, pc |-> "RUNNING",
                  spm |-> [s \in Range(Symbols) |-> NewPositionManager],
                  setups |-> MultiSetups, daily_trades |-> <<>>]

\* an iteration for a timestamp at which some symbol has option and spot data
OrderStep ==
    /\ pc = "RUNNING" \/ calc.pc = "RUNNING"
    /\ now < MaxTicks
    /\ \E present \in (SUBSET Range(Symbols)) \ {{}} :
       \E chain \in [present -> MultiChains] :
       \E data \in {[s \in present |->
                       MarketData(now + 1, s, chain[s].spot_price,
                                  chain[s].option_prices)]} :
       \E first \in {MultiTick([pc |-> pc, spm |-> spm, setups |-> setups,
                                daily_trades |-> daily_trades],
                               symbol_data.order, symbol_data.job_end_idx,
                               risk.cross_symbol_risk_limit, data, now + 1)} :
       \E second \in {MultiTick([pc |-> calc.pc, spm |-> calc.spm,
                                 setups |-> calc.setups,
                                 daily_trades |-> calc.daily_trades],
                                calc.order, symbol_data.job_end_idx,
                                risk.cross_symbol_risk_limit, data, now + 1)} :
          /\ now' = now + 1
          /\ pc' = first.pc
          /\ spm' = first.spm
          /\ setups' = first.setups
          /\ daily_trades' = first.daily_trades
          /\ calc' = [order |-> calc.order, pc |-> second.pc, spm |-> second.spm,
                      setups |-> second.setups, daily_trades |-> second.daily_trades]
    /\ UNCHANGED <<pm, call, md, pre, ret, raised, added, closed, processed, job_end_idx,
                   risk, atCheck, srm, symbol_data, loader, detector, dsm>>

\* an iteration for a timestamp at which no symbol has both kinds of data: continue
OrderSkip ==
    /\ pc = "RUNNING" \/ calc.pc = "RUNNING"
    /\ now < MaxTicks
    /\ now' = now + 1
    /\ UNCHANGED <<pmVars, pc, processed, job_end_idx, risk, daily_trades, atCheck,
                   multiVars, unitVars>>

\* the loops run out of timestamps
OrderExhausted ==
    /\ pc = "RUNNING" \/ calc.pc = "RUNNING"
    /\ now = MaxTicks
    /\ pc' = IF pc = "RUNNING" THEN "EXHAUSTED" ELSE pc
    /\ calc' = [calc EXCEPT !.pc = IF @ = "RUNNING" THEN "EXHAUSTED" ELSE @]
    /\ UNCHANGED <<pmVars, now, processed, job_end_idx, risk, daily_trades, atCheck,
                   multiVars, loader, detector, dsm>>

NextOrder ==
    \/ OrderStep
    \/ OrderSkip
    \/ OrderExhausted

SpecOrder == InitSpecOrder /\ [][NextOrder]_vars

\* daily_pnl = sum(trade.pnl for trade in daily_trades)
DailyPnl(trades) == SumSeq([k \in 1..Len(trades) |-> trades[k].pnl])

\* C24 (load order): the Trades of a multi-symbol day in their order, its daily
\* P&L and the max drawdown computed from the Trades are the same for any two
\* orders in which the concurrent per-symbol loads complete.
C24_LoadOrderIndependent ==
    /\ daily_trades = calc.daily_trades
    /\ DailyPnl(daily_trades) = DailyPnl(calc.daily_trades)
    /\ CalculateMaxDrawdown(daily_trades) = CalculateMaxDrawdown(calc.daily_trades)

\* C25 (no carry-over between days): when the loop of a trading day starts, after
\* the day's resets, the position manager, the risk manager, the regime detector,
\* the setup manager (its regime, adjusted setups, paused set and adjustment log)
\* and the strategies are as in a newly built engine, whether or not other days
\* were processed before, so that the day's results depend on its data only.
C25_NothingCarriesOver ==
    (pc = "RUNNING" /\ now = 0) =>
        /\ pm = NewPositionManager
        /\ risk.daily_pnl = 0
        /\ detector = NewDetector
        /\ dsm.current_regime = NewDynamicSetupManager(DynSetups).current_regime
        /\ dsm.regime_confidence = NewDynamicSetupManager(DynSetups).regime_confidence
        /\ dsm.last_regime_change_time = 0
        /\ dsm.adjusted_setups = DynSetups
        /\ dsm.paused_strategies = {}
        /\ dsm.adjustment_history = <<>>

\* C26 (regime change over a batch): if the regime held after a batch of updates
\* differs from the regime read before the batch, and that regime was not
\* UNKNOWN, detect_regime_change() is true after the batch.
C26_ChangeOverBatch ==
    (/\ calc.batch >= 1
     /\ calc.initial_regime # "UNKNOWN"
     /\ detector.current_regime # calc.initial_regime) =>
        DetectRegimeChange(detector)

(***************************************************************************)
(* Specification SpecPausing: the manager of SpecManager over base setups  *)
(* of every kind of id: a straddle, a hedged straddle, an id in capitals   *)
(* and an id without a keyword of the table.                               *)
(***************************************************************************)
PausingSetups ==
    <<ManagedSetup("straddle_0", 500, 1000, 400),
      ManagedSetup("hedged_straddle_0", 500, 1000, 400),
      ManagedSetup("Iron_Condor_A", 300, 500, 400),
      ManagedSetup("custom_0", 200, 200, 400)>>

InitPausing ==
    /\ InitIdle
    /\ loader = <<>> /\ detector = <<>>
    /\ dsm = NewDynamicSetupManager(PausingSetups)
    /\ calc = [op |-> "__init__", updates |-> 0, tracked |-> 0,
               before |-> NewDynamicSetupManager(PausingSetups), applied |-> "",
               pnls |-> <<>>]

SpecPausing == InitPausing /\ [][NextManager]_vars

\* C27 (pausing follows the table): after update_market_regime with confidence
\* >= 0.6 and a configured regime, a strategy is paused iff its id contains a
\* keyword of the table and the regime is not in the compatible list of its
\* type, which for ids containing 'hedged_straddle' is RANGING, LOW_VOL and
\* HIGH_VOL; an id without a keyword is never paused.
C27_PausingFollowsTable ==
    (/\ calc.op = "update_market_regime"
     /\ dsm.regime_confidence >= AdjustConfidence
     /\ dsm.current_regime \in DOMAIN RegimeConfigs) =>
        \A i \in 1..Len(dsm.base_setups) :
            LET setup_id == dsm.base_setups[i].setup_id
                strategy_type == IF "hedged_straddle" \in KeysIn(setup_id)
                                 THEN "hedged_straddle"
                                 ELSE StrategyTypeOf(setup_id)
            IN  setup_id \in dsm.paused_strategies
                    <=> /\ KeysIn(setup_id) # {}
                        /\ dsm.current_regime
                               \notin StrategyRegimeCompatibility(strategy_type)

\* C28 (no compounding): after any sequence of update_market_regime calls since
\* the last daily reset, target_pct, stop_loss_pct and scalping_price of every
\* adjusted setup that is not paused are those of its base setup multiplied by
\* the factors of the regime of the latest call that was confident (>= 0.6) and
\* configured, the base values if there was none: an unconfident call changes
\* no parameter and repeated calls do not multiply twice.
C28_NoCompounding ==
    \A i \in 1..Len(dsm.base_setups) :
        dsm.base_setups[i].setup_id \notin dsm.paused_strategies =>
            LET base == dsm.base_setups[i]
                Factor(name) == IF calc.applied = "" THEN 10
                                ELSE RegimeConfigs[calc.applied][name]
            IN  /\ dsm.adjusted_setups[i].target_pct
                       = (base.target_pct * Factor("target_pct_multiplier")) \div 10
                /\ dsm.adjusted_setups[i].stop_loss_pct
                       = (base.stop_loss_pct * Factor("stop_loss_pct_multiplier")) \div 10
                /\ dsm.adjusted_setups[i].scalping_price
                       = (base.scalping_price * Factor("scalping_price_multiplier")) \div 10

\* the same confident regime twice in a row, with adjusted parameters of a
\* strategy that is not paused already there before the second call
C28_Witness ==
    /\ calc.op = "update_market_regime"
    /\ calc.applied = "HIGH_VOL"
    /\ dsm.regime_confidence >= AdjustConfidence
    /\ calc.before.current_regime = "HIGH_VOL"
    /\ calc.before.regime_confidence >= AdjustConfidence
    /\ \E i \in 1..Len(dsm.base_setups) :
          /\ dsm.base_setups[i].setup_id \notin dsm.paused_strategies
          /\ calc.before.adjusted_setups[i] # dsm.base_setups[i]
          /\ dsm.adjusted_setups[i] = calc.before.adjusted_setups[i]

\* C29 (running average per pair): after any sequence of tracked trades, the
\* value stored for a (regime, strategy id) pair is the arithmetic mean of the
\* P&L of the trades tracked for that pair.
C29_RunningAverageIsMean ==
    \A i \in 1..Len(calc.pnls) :
        LET stored == DictGet(dsm.adjustment_performance, calc.pnls[i].key,
                              [num |-> 0, den |-> 1])
        IN  stored.num * Len(calc.pnls[i].value) = SumSeq(calc.pnls[i].value) * stored.den

\* C30 (reset of the adjustment counters): after reset_daily_adjustments()
\* total_adjustments is 0 and the adjustment history is empty, whatever they
\* were before the call.
C30_ResetZeroesAdjustments ==
    calc.op = "reset_daily_adjustments" =>
        /\ dsm.total_adjustments = 0
        /\ dsm.adjustment_history = <<>>

====
